---- MODULE Spec2Model ----
(***************************************************************************)
(* A model of ytt's transcript library (src/src/lib.rs):                   *)
(*   - YouTubeTranscript::extract_video_id, the identifier resolver;       *)
(*   - TranscriptList::find_transcript / find_manually_created /           *)
(*     find_generated, the catalog lookups;                                *)
(*   - YouTubeTranscript::extract_captions_json, the catalog build;        *)
(*   - YouTubeTranscript::assert_playability, the playability gate;        *)
(*   - list_transcripts, fetch_transcript and translate_transcript, step   *)
(*     by step: the waits, the requests and what is made of each response; *)
(*   - fetch_transcript_data on its own;                                   *)
(*   - a lookup on a built catalog, and two interleaved list_transcripts   *)
(*     calls on one client or on two.                                      *)
(*                                                                         *)
(* Text is modelled as a sequence of chunks.  A chunk is either one        *)
(* character ("a", "7", "-", "_", "!", " ", and "E9" for U+00E9, a two     *)
(* byte alphabetic character) or a literal piece of a URL ("https://",     *)
(* "youtube.com", "embed", ...).  Every chunk carries its UTF-8 byte       *)
(* length, its number of characters and the class of its characters, so    *)
(* that str::len, str::trim and char::is_alphanumeric are computed the     *)
(* way Rust computes them.                                                 *)
(***************************************************************************)
EXTENDS Integers, Sequences, FiniteSets, TLC

VARIABLES
    url_or_id,       \* extract_video_id: its argument
    resolved,        \* extract_video_id: its return value (None before the call)
    list,            \* TranscriptList the lookup runs on
    language_codes,  \* find_*: the requested language codes, in order
    op,              \* which lookup is called
    found,           \* find_*: its return value (None before the call)
    video_id,        \* extract_captions_json: its video_id argument
    innertube_data,  \* extract_captions_json: the internal-API JSON document
    built,           \* extract_captions_json: its return value (None before the call)
    gated,           \* assert_playability: its return value (None before the call)
    delay_ms,        \* YouTubeTranscript::delay_ms, set at construction
    call,            \* the public operation called, with its arguments
    pc,              \* where the call stands ("new" before the client is built)
    html,            \* the watch page body the call holds
    api_key,         \* the key taken from the page
    transcript_info, \* fetch_transcript_data: the track to fetch
    translate_to,    \* fetch_transcript_data: the translation target, if any
    log,             \* the construction and the steps taken so far, in order
    result,          \* the call's return value (None while it runs)
    cookie_store     \* the cookies the client holds (reqwest's cookie_store(true))

callRest == <<delay_ms, call, pc, html, api_key, transcript_info,
              translate_to, log, result, cookie_store>>

callVars == <<gated, callRest>>

vars == <<url_or_id, resolved, list, language_codes, op, found,
          video_id, innertube_data, built, callVars>>

None == [none |-> TRUE]

\* no public operation is running
NoCall ==
    /\ gated = None /\ delay_ms = None /\ call = None /\ pc = "new"
    /\ html = None /\ api_key = None /\ transcript_info = None
    /\ translate_to = None /\ log = <<>> /\ result = None
    /\ cookie_store = None

(***************************************************************************)
(* Bounds of the model.                                                    *)
(***************************************************************************)
MaxLen == 12      \* longest bare identifier candidate, in chunks
MaxPairs == 2     \* most query pairs of a generated URL
MaxLangs == 3     \* most language codes of one lookup request
MaxTracks == 2    \* most entries of an upstream captionTracks array

(***************************************************************************)
(* Program constants.                                                      *)
(***************************************************************************)
IdLen == 11       \* input.len() == 11

(***************************************************************************)
(* Chunks and the Rust string primitives on them.                          *)
(***************************************************************************)
Hint == " (YouTube video IDs must be 11 characters, or a valid YouTube URL)"

Utf8Len(c) ==
    CASE c \in {"a", "7", "-", "_", "!", " ", "/", "?", "&", "=", "v", "x"} -> 1
      [] c = "E9" -> 2
      [] c = "si" -> 2
      [] c = "m." -> 2
      [] c = "%20" -> 3
      [] c = "www." -> 4
      [] c \in {"embed", "watch"} -> 5
      [] c = "%C3%A9" -> 6
      [] c = "http://" -> 7
      [] c \in {"https://", "youtu.be"} -> 8
      [] c \in {"youtube.com", "example.com"} -> 11
      [] c = Hint -> 66

\* char::is_alphanumeric on every character of the chunk (Unicode Alphabetic or
\* Numeric: U+00E9 is alphabetic).
IsAlphanumeric(c) == c \in {"a", "7", "v", "x", "si", "embed", "watch", "E9"}

\* char::is_whitespace
IsWhitespace(c) == c = " "

RECURSIVE StrLen(_)
\* str::len: the length in bytes
StrLen(s) == IF s = <<>> THEN 0 ELSE Utf8Len(Head(s)) + StrLen(Tail(s))

RECURSIVE TrimStart(_)
TrimStart(s) ==
    IF s # <<>> /\ IsWhitespace(Head(s)) THEN TrimStart(Tail(s)) ELSE s

RECURSIVE TrimEnd(_)
TrimEnd(s) ==
    IF s # <<>> /\ IsWhitespace(s[Len(s)])
    THEN TrimEnd(SubSeq(s, 1, Len(s) - 1))
    ELSE s

\* str::trim
Trim(s) == TrimEnd(TrimStart(s))

\* str::contains for a literal that is one chunk
Contains(s, c) == \E i \in 1..Len(s) : s[i] = c

\* str::starts_with for a literal that is one chunk
StartsWith(s, c) == s # <<>> /\ s[1] = c

(***************************************************************************)
(* The url crate, as far as extract_video_id uses it.  A URL is parsed     *)
(* only when it starts with a scheme; the authority runs to the first "/"  *)
(* or "?"; the path is percent-encoded and split at "/"; the query is      *)
(* percent-encoded, and query_pairs splits it at "&" and "=" and decodes   *)
(* it again.  The generated hosts are lower-case ASCII, on which the       *)
(* crate's host normalisation changes nothing.                             *)
(***************************************************************************)
Schemes == {"http://", "https://"}

\* index of the first chunk of s that is in set, 0 when there is none
FirstIndex(s, set) ==
    IF \E i \in 1..Len(s) : s[i] \in set
    THEN CHOOSE i \in 1..Len(s) : s[i] \in set /\ \A j \in 1..(i - 1) : s[j] \notin set
    ELSE 0

RECURSIVE Split(_, _)
\* str::split at a one-chunk separator
Split(s, sep) ==
    LET i == FirstIndex(s, {sep})
    IN  IF i = 0 THEN <<s>>
        ELSE <<SubSeq(s, 1, i - 1)>> \o Split(SubSeq(s, i + 1, Len(s)), sep)

\* percent-encoding of one chunk in a path or a query
PercentEncode(c) ==
    CASE c = "E9" -> "%C3%A9"
      [] c = " " -> "%20"
      [] OTHER -> c

\* percent-decoding of one chunk (form_urlencoded::parse)
PercentDecode(c) ==
    CASE c = "%C3%A9" -> "E9"
      [] c = "%20" -> " "
      [] OTHER -> c

EncodeAll(s) == [i \in 1..Len(s) |-> PercentEncode(s[i])]

DecodeAll(s) == [i \in 1..Len(s) |-> PercentDecode(s[i])]

RECURSIVE SkipSlashes(_)
\* after a special scheme the parser passes over any further "/"
SkipSlashes(s) == IF s # <<>> /\ Head(s) = "/" THEN SkipSlashes(Tail(s)) ELSE s

\* url::Url::parse
UrlParse(s) ==
    IF ~(s # <<>> /\ s[1] \in Schemes) THEN [ok |-> FALSE]
    ELSE
      LET rest == SkipSlashes(Tail(s))
          a == FirstIndex(rest, {"/", "?"})
          host == IF a = 0 THEN rest ELSE SubSeq(rest, 1, a - 1)
          after == IF a = 0 THEN <<>> ELSE SubSeq(rest, a, Len(rest))
          q == FirstIndex(after, {"?"})
          rawPath == IF q = 0 THEN after ELSE SubSeq(after, 1, q - 1)
          path == IF rawPath = <<>> THEN <<"/">> ELSE EncodeAll(rawPath)
          query == IF q = 0 THEN None
                   ELSE [none |-> FALSE,
                         text |-> EncodeAll(SubSeq(after, q + 1, Len(after)))]
      IN  IF host = <<>> \/ Contains(host, " ") THEN [ok |-> FALSE]
          ELSE [ok |-> TRUE, host |-> host, path |-> path, query |-> query]

\* Url::host_str
HostStr(url) == url.host

\* Url::path_segments: the path without its leading "/", split at "/"
PathSegments(url) == Split(Tail(url.path), "/")

RECURSIVE PairsOf(_)
PairsOf(pieces) ==
    IF pieces = <<>> THEN <<>>
    ELSE LET p == Head(pieces)
             e == FirstIndex(p, {"="})
             pair == IF e = 0
                     THEN [k |-> DecodeAll(p), v |-> <<>>]
                     ELSE [k |-> DecodeAll(SubSeq(p, 1, e - 1)),
                           v |-> DecodeAll(SubSeq(p, e + 1, Len(p)))]
         IN  IF p = <<>> THEN PairsOf(Tail(pieces))
             ELSE <<pair>> \o PairsOf(Tail(pieces))

\* Url::query_pairs
QueryPairs(url) ==
    IF url.query = None THEN <<>> ELSE PairsOf(Split(url.query.text, "&"))

(***************************************************************************)
(* YouTubeTranscript::extract_video_id                                     *)
(***************************************************************************)
\* the chars().all(...) test: every character alphanumeric, '-' or '_'
AllIdChars(s) ==
    \A i \in 1..Len(s) : IsAlphanumeric(s[i]) \/ s[i] = "-" \/ s[i] = "_"

\* the mutant of IsVideoIdShape that leaves '-' and '_' out
IsVideoIdShapeNoDash(s) ==
    StrLen(s) = IdLen /\ \A i \in 1..Len(s) : IsAlphanumeric(s[i])

\* the test made on the input, on the v parameter and on a path segment
IsVideoIdShape(s) == StrLen(s) = IdLen /\ AllIdChars(s)

OkId(id, via) == [ok |-> TRUE, id |-> id, via |-> via]

InvalidVideoId(input) ==
    [ok |-> FALSE, kind |-> "InvalidVideoId", message |-> input \o <<Hint>>]

\* the URL handed to Url::parse
UrlStr(input) ==
    IF StartsWith(input, "http://") \/ StartsWith(input, "https://") THEN input
    ELSE IF Contains(input, "youtube.com") \/ Contains(input, "youtu.be")
         THEN <<"https://">> \o input
         ELSE input

\* the first query pair whose key is v, None when there is none
FindV(url) ==
    LET pairs == QueryPairs(url)
        hits == {i \in 1..Len(pairs) : pairs[i].k = <<"v">>}
    IN  IF hits = {} THEN None
        ELSE [none |-> FALSE,
              value |-> pairs[CHOOSE i \in hits : \A j \in hits : i <= j].v]

ExtractVideoId(arg) ==
    LET input == Trim(arg)
    IN  IF IsVideoIdShape(input) THEN OkId(input, "direct")
        ELSE
          LET url == UrlParse(UrlStr(input))
          IN  IF ~url.ok THEN InvalidVideoId(arg)
              ELSE IF ~(Contains(HostStr(url), "youtube.com")
                        \/ Contains(HostStr(url), "youtu.be"))
                   THEN InvalidVideoId(arg)
              ELSE
                LET v == FindV(url)
                    segments == PathSegments(url)
                IN  IF v # None /\ IsVideoIdShape(v.value)
                    THEN OkId(v.value, "v")
                    ELSE IF HostStr(url) = <<"youtu.be">>
                            /\ IsVideoIdShape(segments[1])
                    THEN OkId(segments[1], "short")
                    ELSE IF Len(segments) >= 2 /\ segments[1] = <<"embed">>
                            /\ IsVideoIdShape(segments[2])
                    THEN OkId(segments[2], "embed")
                    ELSE InvalidVideoId(arg)

(***************************************************************************)
(* The inputs extract_video_id is run on: bare texts of up to MaxLen       *)
(* characters in two runs, with or without surrounding blanks, and URLs    *)
(* put together from a scheme, a host, a path and up to MaxPairs query     *)
(* pairs.                                                                  *)
(***************************************************************************)
RECURSIVE Rep(_, _)
Rep(c, n) == IF n = 0 THEN <<>> ELSE <<c>> \o Rep(c, n - 1)

IdChars == {"a", "7", "-", "_", "!", "E9"}

Runs ==
    {Rep(c1, n1) \o Rep(c2, n2) :
        <<c1, c2, n1, n2>> \in
            {q \in IdChars \X IdChars \X (0..MaxLen) \X (0..MaxLen) :
                q[3] + q[4] <= MaxLen}}

Blanks == {<<>>, <<" ">>}

BareInputs == {l \o s \o r : <<l, s, r>> \in Blanks \X Runs \X Blanks}

\* the identifier candidates put into URLs
IdA == Rep("a", IdLen)
IdB == Rep("7", 4) \o Rep("-", 3) \o Rep("_", 4)
IdShort == Rep("a", IdLen - 1)
IdLong == Rep("a", IdLen + 1)
IdBang == Rep("a", IdLen - 1) \o <<"!">>
IdAccent == Rep("E9", 5) \o <<"7">>

UrlIds == {IdA, IdB, IdShort, IdLong, IdBang, IdAccent}

UrlSchemes == {<<>>, <<"http://">>, <<"https://">>}

UrlHosts ==
    {<<"www.", "youtube.com">>, <<"youtube.com">>, <<"youtu.be">>,
     <<"www.", "youtu.be">>, <<"example.com">>, <<>>}

UrlPaths ==
    {<<>>, <<"/">>, <<"/", "watch">>, <<"/", "embed">>}
    \cup {<<"/">> \o id : id \in UrlIds}
    \cup {<<"/">> \o id \o <<"/">> : id \in {IdA}}
    \cup {<<"/", "embed", "/">> \o id : id \in UrlIds}

UrlPairs ==
    {<<"si", "=", "x">>, <<"v">>} \cup {<<"v", "=">> \o id : id \in UrlIds}

RECURSIVE JoinPairs(_)
JoinPairs(ps) ==
    IF ps = <<>> THEN <<>>
    ELSE IF Len(ps) = 1 THEN ps[1]
    ELSE ps[1] \o <<"&">> \o JoinPairs(Tail(ps))

UrlQueries ==
    {<<>>} \cup
    {<<"?">> \o JoinPairs(ps) :
        ps \in UNION {[1..n -> UrlPairs] : n \in 1..MaxPairs}}

UrlInputs ==
    {s \o h \o p \o q :
        <<s, h, p, q>> \in UrlSchemes \X UrlHosts \X UrlPaths \X UrlQueries}

Inputs == BareInputs \cup UrlInputs

(***************************************************************************)
(* The resolver's specification: one call of extract_video_id.             *)
(***************************************************************************)
Idle ==
    /\ NoCall
    /\ url_or_id = None /\ resolved = None
    /\ list = None /\ language_codes = None /\ op = None /\ found = None
    /\ video_id = None /\ innertube_data = None /\ built = None

ResolveInit ==
    /\ NoCall
    /\ url_or_id \in Inputs
    /\ resolved = None
    /\ list = None /\ language_codes = None /\ op = None /\ found = None
    /\ video_id = None /\ innertube_data = None /\ built = None

Resolve ==
    /\ resolved = None
    /\ resolved' = ExtractVideoId(url_or_id)
    /\ UNCHANGED <<url_or_id, list, language_codes, op, found,
                   video_id, innertube_data, built, callVars>>

ResolveNext == Resolve

ResolveSpec == ResolveInit /\ [][ResolveNext]_vars

(***************************************************************************)
(* What the specification calls a valid identifier: exactly 11 characters, *)
(* each in [A-Za-z0-9_-].                                                  *)
(***************************************************************************)
\* the number of characters of a chunk
CharCount(c) == IF c = "E9" THEN 1 ELSE Utf8Len(c)

RECURSIVE CharLen(_)
CharLen(s) == IF s = <<>> THEN 0 ELSE CharCount(Head(s)) + CharLen(Tail(s))

\* every character of the chunk is in [A-Za-z0-9_-]
IsAsciiIdChunk(c) == c \in {"a", "7", "-", "_", "v", "x", "si", "embed", "watch"}

ValidId(s) == CharLen(s) = 11 /\ \A i \in 1..Len(s) : IsAsciiIdChunk(s[i])

\* the URL the resolver parses for an input
ParsedInput(input) == UrlParse(UrlStr(Trim(input)))

\* C1: an input of exactly 11 characters, each in [A-Za-z0-9_-], is returned
\* unchanged by the first return of extract_video_id, before any URL is parsed.
C1_ValidIdReturnedUnchanged ==
    (resolved # None /\ ValidId(url_or_id))
        => resolved = OkId(url_or_id, "direct")

C1_Witness ==
    /\ resolved # None
    /\ ValidId(url_or_id)
    /\ Contains(url_or_id, "-")
    /\ Contains(url_or_id, "7")
    /\ resolved.ok

\* C2: every identifier extract_video_id returns is exactly 11 characters long,
\* each in [A-Za-z0-9_-].
C2_ReturnedIdIsValid ==
    (resolved # None /\ resolved.ok) => ValidId(resolved.id)

\* C3: on a parseable URL whose host is exactly youtu.be and whose first path
\* segment is a valid identifier, that segment is returned, whatever the query
\* string holds.
C3_ShortUrlReturnsFirstSegment ==
    resolved # None =>
        LET url == ParsedInput(url_or_id)
        IN  (/\ url.ok
             /\ HostStr(url) = <<"youtu.be">>
             /\ ValidId(PathSegments(url)[1]))
                => (resolved.ok /\ resolved.id = PathSegments(url)[1])

\* C4: on a parseable URL whose host contains youtube.com, a v parameter that is
\* a valid identifier is returned; otherwise a valid identifier following the
\* path segment embed is returned; a v parameter that is not a valid identifier
\* is never returned.
C4_YoutubeComRulesInOrder ==
    resolved # None =>
        LET url == ParsedInput(url_or_id)
        IN  (url.ok /\ Contains(HostStr(url), "youtube.com")) =>
              LET v == FindV(url)
                  segments == PathSegments(url)
                  vValid == v # None /\ ValidId(v.value)
              IN  /\ vValid => (resolved.ok /\ resolved.id = v.value)
                  /\ (/\ ~vValid
                      /\ Len(segments) >= 2
                      /\ segments[1] = <<"embed">>
                      /\ ValidId(segments[2]))
                        => (resolved.ok /\ resolved.id = segments[2])
                  /\ (v # None /\ ~ValidId(v.value))
                        => ~(resolved.ok /\ resolved.id = v.value)

\* an input of one of the accepted URL shapes: a parseable URL whose host
\* contains youtube.com or youtu.be, with a valid v parameter, a valid short
\* path or a valid embed segment
MatchesUrlShape(input) ==
    LET url == ParsedInput(input)
    IN  /\ url.ok
        /\ Contains(HostStr(url), "youtube.com") \/ Contains(HostStr(url), "youtu.be")
        /\ LET v == FindV(url)
               segments == PathSegments(url)
           IN  \/ v # None /\ ValidId(v.value)
               \/ HostStr(url) = <<"youtu.be">> /\ ValidId(segments[1])
               \/ /\ Len(segments) >= 2
                  /\ segments[1] = <<"embed">>
                  /\ ValidId(segments[2])

\* C5: extract_video_id returns Ok or InvalidVideoId and nothing else, and an
\* input that is neither a valid identifier nor of an accepted URL shape fails
\* with InvalidVideoId, whose message holds the original input and the hint.
C5_TotalAndRejectsTheRest ==
    resolved # None =>
        /\ resolved.ok \/ resolved.kind = "InvalidVideoId"
        /\ (~ValidId(url_or_id) /\ ~MatchesUrlShape(url_or_id)) =>
              /\ ~resolved.ok
              /\ resolved.kind = "InvalidVideoId"
              /\ SubSeq(resolved.message, 1, Len(url_or_id)) = url_or_id
              /\ Contains(resolved.message, Hint)

(***************************************************************************)
(* TranscriptList and its lookups.  A HashMap<String, TranscriptInfo> is a *)
(* function from the set of its keys to its values.                        *)
(***************************************************************************)
Codes == {"en", "es", "fr"}

VideoIds == {IdA, IdB}

TranscriptInfo(language_code, language, is_generated, is_translatable, base_url, translation_languages) ==
    [language_code |-> language_code, language |-> language,
     is_generated |-> is_generated, is_translatable |-> is_translatable,
     base_url |-> base_url, translation_languages |-> translation_languages]

TranscriptList(vid, manually_created, generated, translation_languages) ==
    [video_id |-> vid, manually_created |-> manually_created,
     generated |-> generated, translation_languages |-> translation_languages]

OkTrack(track) == [ok |-> TRUE, track |-> track]

NoTranscriptFound(vid, codes) ==
    [ok |-> FALSE, kind |-> "NoTranscriptFound", video_id |-> vid,
     languages |-> [i \in 1..Len(codes) |-> codes[i]]]

RECURSIVE ScanBoth(_, _)
\* the loop of find_transcript: per code, the authored mapping, then the generated
ScanBoth(l, codes) ==
    IF codes = <<>> THEN None
    ELSE IF Head(codes) \in DOMAIN l.manually_created
         THEN OkTrack(l.manually_created[Head(codes)])
    ELSE IF Head(codes) \in DOMAIN l.generated
         THEN OkTrack(l.generated[Head(codes)])
    ELSE ScanBoth(l, Tail(codes))

RECURSIVE ScanOne(_, _)
\* the loop of find_manually_created and find_generated over one mapping
ScanOne(map, codes) ==
    IF codes = <<>> THEN None
    ELSE IF Head(codes) \in DOMAIN map THEN OkTrack(map[Head(codes)])
    ELSE ScanOne(map, Tail(codes))

\* the mutant of FindTranscript that tries every code in the authored mapping
\* before it tries any in the generated one
FindTranscriptAuthoredFirst(l, codes) ==
    LET a == ScanOne(l.manually_created, codes)
        g == ScanOne(l.generated, codes)
    IN  IF a # None THEN a
        ELSE IF g # None THEN g
        ELSE NoTranscriptFound(l.video_id, codes)

RECURSIVE ScanBothGeneratedFirst(_, _)
ScanBothGeneratedFirst(l, codes) ==
    IF codes = <<>> THEN None
    ELSE IF Head(codes) \in DOMAIN l.generated
         THEN OkTrack(l.generated[Head(codes)])
    ELSE IF Head(codes) \in DOMAIN l.manually_created
         THEN OkTrack(l.manually_created[Head(codes)])
    ELSE ScanBothGeneratedFirst(l, Tail(codes))

\* the mutant of FindTranscript that tries the generated mapping before the
\* authored one for each code
FindTranscriptGeneratedFirst(l, codes) ==
    LET r == ScanBothGeneratedFirst(l, codes)
    IN  IF r # None THEN r ELSE NoTranscriptFound(l.video_id, codes)

FindTranscript(l, codes) ==
    LET r == ScanBoth(l, codes)
    IN  IF r # None THEN r ELSE NoTranscriptFound(l.video_id, codes)

\* the mutant of FindManuallyCreated that falls back to the generated mapping
FindManuallyCreatedWithFallback(l, codes) ==
    LET r == ScanBoth(l, codes)
    IN  IF r # None THEN r ELSE NoTranscriptFound(l.video_id, codes)

FindManuallyCreated(l, codes) ==
    LET r == ScanOne(l.manually_created, codes)
    IN  IF r # None THEN r ELSE NoTranscriptFound(l.video_id, codes)

FindGenerated(l, codes) ==
    LET r == ScanOne(l.generated, codes)
    IN  IF r # None THEN r ELSE NoTranscriptFound(l.video_id, codes)

(***************************************************************************)
(* The lookups' specification: one lookup on a catalog.  The catalogs are  *)
(* every pair of mappings over Codes, so a code may be a key of neither,   *)
(* of one or of both; the requests are every list of up to MaxLangs codes. *)
(***************************************************************************)
AuthoredTrack(c) == TranscriptInfo(c, c, FALSE, TRUE, <<"url", c>>, <<>>)

GeneratedTrack(c) == TranscriptInfo(c, c, TRUE, FALSE, <<"url", c, "asr">>, <<>>)

Catalogs ==
    {TranscriptList(vid, [c \in a |-> AuthoredTrack(c)],
                    [c \in g |-> GeneratedTrack(c)], <<>>) :
        <<vid, a, g>> \in VideoIds \X (SUBSET Codes) \X (SUBSET Codes)}

Requests == UNION {[1..n -> Codes] : n \in 0..MaxLangs}

Lookups == {"find_transcript", "find_manually_created", "find_generated"}

LookupInit ==
    /\ NoCall
    /\ list \in Catalogs
    /\ language_codes \in Requests
    /\ op \in Lookups
    /\ found = None
    /\ url_or_id = None /\ resolved = None
    /\ video_id = None /\ innertube_data = None /\ built = None

CallFindTranscript ==
    /\ found = None /\ op = "find_transcript"
    /\ found' = FindTranscript(list, language_codes)
    /\ UNCHANGED <<url_or_id, resolved, list, language_codes, op,
                   video_id, innertube_data, built, callVars>>

CallFindManuallyCreated ==
    /\ found = None /\ op = "find_manually_created"
    /\ found' = FindManuallyCreated(list, language_codes)
    /\ UNCHANGED <<url_or_id, resolved, list, language_codes, op,
                   video_id, innertube_data, built, callVars>>

CallFindGenerated ==
    /\ found = None /\ op = "find_generated"
    /\ found' = FindGenerated(list, language_codes)
    /\ UNCHANGED <<url_or_id, resolved, list, language_codes, op,
                   video_id, innertube_data, built, callVars>>

LookupNext == CallFindTranscript \/ CallFindManuallyCreated \/ CallFindGenerated

LookupSpec == LookupInit /\ [][LookupNext]_vars

\* the positions of the request whose code is a key of one of the two mappings
Hits == {i \in 1..Len(language_codes) :
            language_codes[i] \in DOMAIN list.manually_created
                                  \cup DOMAIN list.generated}

\* C6: find_transcript returns the track of the first requested code that is a
\* key of either mapping: the authored track of that code when there is one,
\* its generated track otherwise.
C6_FirstCodeAuthoredThenGenerated ==
    (found # None /\ op = "find_transcript" /\ Hits # {}) =>
        LET first == CHOOSE i \in Hits : \A j \in Hits : i <= j
            c == language_codes[first]
        IN  /\ found.ok
            /\ found.track = IF c \in DOMAIN list.manually_created
                             THEN list.manually_created[c]
                             ELSE list.generated[c]

\* an earlier code's generated track is returned although a later code has an
\* authored one
C6_Witness ==
    /\ found # None /\ op = "find_transcript"
    /\ Len(language_codes) >= 2
    /\ language_codes[1] \in DOMAIN list.generated
    /\ language_codes[1] \notin DOMAIN list.manually_created
    /\ language_codes[2] \in DOMAIN list.manually_created
    /\ found.ok
    /\ found.track = list.generated[language_codes[1]]

\* the keys the called lookup searches
SearchedKeys ==
    CASE op = "find_transcript" ->
             DOMAIN list.manually_created \cup DOMAIN list.generated
      [] op = "find_manually_created" -> DOMAIN list.manually_created
      [] op = "find_generated" -> DOMAIN list.generated

\* C7: a lookup fails exactly when no requested code is a key of the mapping(s)
\* it searches, and it fails with NoTranscriptFound carrying the catalog's video
\* id and the requested codes in the order given.
C7_FailsExactlyWhenNoCodeMatches ==
    found # None =>
        LET nohit == \A i \in 1..Len(language_codes) :
                         language_codes[i] \notin SearchedKeys
        IN  /\ found.ok <=> ~nohit
            /\ ~found.ok =>
                  /\ found.kind = "NoTranscriptFound"
                  /\ found.video_id = list.video_id
                  /\ found.languages = language_codes

\* a restricted lookup fails although the other mapping holds a requested code
C7_Witness ==
    /\ found # None /\ op = "find_manually_created"
    /\ Len(language_codes) >= 2
    /\ language_codes[1] # language_codes[2]
    /\ \E i \in 1..Len(language_codes) :
           language_codes[i] \in DOMAIN list.generated
    /\ ~found.ok
    /\ found.languages = language_codes

(***************************************************************************)
(* The internal-API JSON document.  A field that may be missing (or hold   *)
(* a value of another JSON type, which the accessors treat alike) is       *)
(* Absent or Some(value).                                                  *)
(***************************************************************************)
Absent == <<>>

Some(x) == <<x>>

Get(field) == field[1]

\* HashMap::new
EmptyMap == [c \in {} |-> None]

\* HashMap::insert: a later value replaces an earlier one under the same key
Insert(map, k, v) ==
    [c \in DOMAIN map \cup {k} |-> IF c = k THEN v ELSE map[c]]

\* str::replace(literal, "") for a literal that is one chunk
Remove(s, c) ==
    LET keep == {i \in 1..Len(s) : s[i] # c}
        F[n \in 0..Len(s)] ==
            IF n = 0 THEN <<>>
            ELSE IF n \in keep THEN Append(F[n - 1], s[n]) ELSE F[n - 1]
    IN  F[Len(s)]

(***************************************************************************)
(* YouTubeTranscript::assert_playability                                   *)
(***************************************************************************)
Passed == [ok |-> TRUE]

Failed(kind, vid) == [ok |-> FALSE, kind |-> kind, video_id |-> vid]

VideoUnplayable(vid, reason) ==
    [ok |-> FALSE, kind |-> "VideoUnplayable", video_id |-> vid, reason |-> reason]

BotPhrase == "Sign in to confirm you're not a bot"

AgePhrase == "inappropriate for some users"

\* the mutant of AssertPlayability that never looks at the shape of the video id
AssertPlayabilityNoUrlTest(vid, data) ==
    IF data.playabilityStatus = Absent THEN Passed
    ELSE
      LET ps == Get(data.playabilityStatus)
          status == IF ps.status = Absent THEN "" ELSE Get(ps.status)
          reason == IF ps.reason = Absent THEN <<>> ELSE Get(ps.reason)
      IN  IF status = "OK" THEN Passed
          ELSE IF status = "LOGIN_REQUIRED" /\ Contains(reason, BotPhrase)
               THEN Failed("RequestBlocked", vid)
          ELSE IF status = "LOGIN_REQUIRED" /\ Contains(reason, AgePhrase)
               THEN Failed("AgeRestricted", vid)
          ELSE IF status = "ERROR" /\ Contains(reason, "unavailable")
               THEN Failed("VideoUnavailable", vid)
          ELSE VideoUnplayable(vid, reason)

AssertPlayability(vid, data) ==
    IF data.playabilityStatus = Absent THEN Passed
    ELSE
      LET ps == Get(data.playabilityStatus)
          status == IF ps.status = Absent THEN "" ELSE Get(ps.status)
          reason == IF ps.reason = Absent THEN <<>> ELSE Get(ps.reason)
      IN  IF status = "OK" THEN Passed
          ELSE IF status = "LOGIN_REQUIRED" /\ Contains(reason, BotPhrase)
               THEN Failed("RequestBlocked", vid)
          ELSE IF status = "LOGIN_REQUIRED" /\ Contains(reason, AgePhrase)
               THEN Failed("AgeRestricted", vid)
          ELSE IF status = "ERROR" /\ Contains(reason, "unavailable")
               THEN IF StartsWith(vid, "http://") \/ StartsWith(vid, "https://")
                    THEN Failed("InvalidVideoId", vid)
                    ELSE Failed("VideoUnavailable", vid)
          ELSE VideoUnplayable(vid, reason)

(***************************************************************************)
(* YouTubeTranscript::extract_captions_json                                *)
(***************************************************************************)
TranslationLanguage(language, language_code) ==
    [language |-> language, language_code |-> language_code]

RECURSIVE ReadTranslationLanguages(_)
\* the filter_map over translationLanguages: an entry without a code or a
\* first name run is left out
ReadTranslationLanguages(arr) ==
    IF arr = <<>> THEN <<>>
    ELSE LET lang == Head(arr)
         IN  IF lang.languageCode = Absent \/ lang.languageName = Absent
             THEN ReadTranslationLanguages(Tail(arr))
             ELSE <<TranslationLanguage(Get(lang.languageName),
                                        Get(lang.languageCode))>>
                  \o ReadTranslationLanguages(Tail(arr))

\* the mutant of ReadCaption that attaches the catalog-wide list to every track
ReadCaptionListForAll(caption, translation_languages) ==
    LET language_code == Get(caption.languageCode)
    IN  TranscriptInfo(
            language_code,
            IF caption.name = Absent THEN language_code ELSE Get(caption.name),
            caption.kind # Absent /\ Get(caption.kind) = "asr",
            caption.isTranslatable # Absent /\ Get(caption.isTranslatable),
            Remove(Get(caption.baseUrl), "&fmt=srv3"),
            translation_languages)

\* the TranscriptInfo built from a caption entry that has a code and a URL
ReadCaption(caption, translation_languages) ==
    LET language_code == Get(caption.languageCode)
        is_translatable == caption.isTranslatable # Absent
                           /\ Get(caption.isTranslatable)
    IN  TranscriptInfo(
            language_code,
            IF caption.name = Absent THEN language_code ELSE Get(caption.name),
            caption.kind # Absent /\ Get(caption.kind) = "asr",
            is_translatable,
            Remove(Get(caption.baseUrl), "&fmt=srv3"),
            IF is_translatable THEN translation_languages ELSE <<>>)

\* the mutant of InsertCaption that keeps a generated track out of the catalog
\* when its code already has an authored one, and lets an authored track
\* replace the generated one of its code
InsertCaptionOneMapping(maps, caption, translation_languages) ==
    IF caption.languageCode = Absent \/ caption.baseUrl = Absent THEN maps
    ELSE
      LET info == ReadCaption(caption, translation_languages)
          others(map) == [c \in DOMAIN map \ {info.language_code} |-> map[c]]
      IN  IF info.is_generated
          THEN IF info.language_code \in DOMAIN maps.manually_created THEN maps
               ELSE [maps EXCEPT !.generated =
                        Insert(maps.generated, info.language_code, info)]
          ELSE [manually_created |->
                    Insert(maps.manually_created, info.language_code, info),
                generated |-> others(maps.generated)]

\* the mutant of InsertCaption that also inserts an entry without a source URL
InsertCaptionWithoutUrl(maps, caption, translation_languages) ==
    IF caption.languageCode = Absent THEN maps
    ELSE
      LET withUrl == IF caption.baseUrl = Absent
                     THEN [caption EXCEPT !.baseUrl = Some(<<>>)]
                     ELSE caption
          info == ReadCaption(withUrl, translation_languages)
      IN  IF info.is_generated
          THEN [maps EXCEPT !.generated =
                   Insert(maps.generated, info.language_code, info)]
          ELSE [maps EXCEPT !.manually_created =
                   Insert(maps.manually_created, info.language_code, info)]

\* the mutant of InsertCaption that files a track under the other mapping
InsertCaptionSwapped(maps, caption, translation_languages) ==
    IF caption.languageCode = Absent \/ caption.baseUrl = Absent THEN maps
    ELSE
      LET info == ReadCaption(caption, translation_languages)
      IN  IF info.is_generated
          THEN [maps EXCEPT !.manually_created =
                   Insert(maps.manually_created, info.language_code, info)]
          ELSE [maps EXCEPT !.generated =
                   Insert(maps.generated, info.language_code, info)]

\* one pass of the loop over captionTracks
InsertCaption(maps, caption, translation_languages) ==
    IF caption.languageCode = Absent \/ caption.baseUrl = Absent THEN maps
    ELSE
      LET info == ReadCaption(caption, translation_languages)
      IN  IF info.is_generated
          THEN [maps EXCEPT !.generated =
                   Insert(maps.generated, info.language_code, info)]
          ELSE [maps EXCEPT !.manually_created =
                   Insert(maps.manually_created, info.language_code, info)]

RECURSIVE InsertCaptions(_, _, _)
\* the loop over captionTracks, in array order
InsertCaptions(maps, caption_tracks, translation_languages) ==
    IF caption_tracks = <<>> THEN maps
    ELSE InsertCaptions(
             InsertCaption(maps, Head(caption_tracks), translation_languages),
             Tail(caption_tracks), translation_languages)

OkList(l) == [ok |-> TRUE, list |-> l]

TranscriptsDisabled(vid) == Failed("TranscriptsDisabled", vid)

\* captions.playerCaptionsTracklistRenderer, Absent when either level is missing
CaptionsJson(data) ==
    IF data.captions = Absent THEN Absent
    ELSE Get(data.captions).playerCaptionsTracklistRenderer

\* the mutant of ExtractCaptionsJson that looks for the captions section before
\* it asks the gate
ExtractCaptionsJsonCaptionsFirst(vid, data) ==
    IF CaptionsJson(data) = Absent THEN TranscriptsDisabled(vid)
    ELSE
      LET gate == AssertPlayability(vid, data)
          captions_json == Get(CaptionsJson(data))
          translation_languages ==
              IF captions_json.translationLanguages = Absent THEN <<>>
              ELSE ReadTranslationLanguages(Get(captions_json.translationLanguages))
          caption_tracks ==
              IF captions_json.captionTracks = Absent THEN <<>>
              ELSE Get(captions_json.captionTracks)
          maps == InsertCaptions(
                      [manually_created |-> EmptyMap, generated |-> EmptyMap],
                      caption_tracks, translation_languages)
      IN  IF ~gate.ok THEN gate
          ELSE IF DOMAIN maps.manually_created = {} /\ DOMAIN maps.generated = {}
          THEN TranscriptsDisabled(vid)
          ELSE OkList(TranscriptList(vid, maps.manually_created,
                                     maps.generated, translation_languages))

ExtractCaptionsJson(vid, data) ==
    LET gate == AssertPlayability(vid, data)
    IN  IF ~gate.ok THEN gate
        ELSE IF CaptionsJson(data) = Absent THEN TranscriptsDisabled(vid)
        ELSE
          LET captions_json == Get(CaptionsJson(data))
              translation_languages ==
                  IF captions_json.translationLanguages = Absent THEN <<>>
                  ELSE ReadTranslationLanguages(
                           Get(captions_json.translationLanguages))
              caption_tracks ==
                  IF captions_json.captionTracks = Absent THEN <<>>
                  ELSE Get(captions_json.captionTracks)
              maps == InsertCaptions(
                          [manually_created |-> EmptyMap, generated |-> EmptyMap],
                          caption_tracks, translation_languages)
          IN  IF DOMAIN maps.manually_created = {} /\ DOMAIN maps.generated = {}
              THEN TranscriptsDisabled(vid)
              ELSE OkList(TranscriptList(vid, maps.manually_created,
                                         maps.generated, translation_languages))

(***************************************************************************)
(* The catalog build's specification: one call of extract_captions_json on *)
(* an internal-API document.  The captionTracks array holds up to          *)
(* MaxTracks entries: entries with a code and a URL, of every kind and     *)
(* translatable flag, and entries that lack the code or the URL.           *)
(***************************************************************************)
CaptionEntry(languageCode, baseUrl, name, kind, isTranslatable) ==
    [languageCode |-> languageCode, baseUrl |-> baseUrl, name |-> name,
     kind |-> kind, isTranslatable |-> isTranslatable]

UrlPlain == <<"https://www.youtube.com/api/timedtext?v=1">>

UrlSrv3 == <<"https://www.youtube.com/api/timedtext?v=2", "&fmt=srv3">>

CompleteEntries ==
    {CaptionEntry(Some(c), Some(nu[2]), nu[1], k, tr) :
        <<c, nu, k, tr>> \in
            {"en", "es"}
            \X {<<Some("Display name"), UrlPlain>>, <<Absent, UrlSrv3>>}
            \X {Absent, Some("asr"), Some("forced")}
            \X {Absent, Some(TRUE), Some(FALSE)}}

IncompleteEntries ==
    {CaptionEntry(Absent, Some(UrlPlain), Some("Display name"), Some("asr"), Some(TRUE)),
     CaptionEntry(Some("en"), Absent, Absent, Absent, Some(TRUE))}

CaptionEntries == CompleteEntries \cup IncompleteEntries

CaptionTrackArrays == UNION {[1..n -> CaptionEntries] : n \in 0..MaxTracks}

TranslationEntry(languageCode, languageName) ==
    [languageCode |-> languageCode, languageName |-> languageName]

TranslationArrays ==
    {<<TranslationEntry(Some("de"), Some("German")),
       TranslationEntry(Some("fr"), Some("French"))>>,
     <<TranslationEntry(Some("it"), Absent),
       TranslationEntry(Some("de"), Some("German"))>>}

Renderers ==
    {[translationLanguages |-> tl, captionTracks |-> ct] :
        <<tl, ct>> \in
            ({Absent} \cup {Some(a) : a \in TranslationArrays})
            \X ({Absent} \cup {Some(a) : a \in CaptionTrackArrays})}

CaptionsSections ==
    {Absent, Some([playerCaptionsTracklistRenderer |-> Absent])}
    \cup {Some([playerCaptionsTracklistRenderer |-> Some(r)]) : r \in Renderers}

\* captions sections of the documents whose playability block is missing or
\* rejected: the section is absent, empty, or lists one or two tracks
FewCaptionsSections ==
    {Absent, Some([playerCaptionsTracklistRenderer |-> Absent])}
    \cup {Some([playerCaptionsTracklistRenderer |->
                    Some([translationLanguages |-> Absent, captionTracks |-> ct])]) :
            ct \in {Absent,
                    Some(<<CaptionEntry(Some("en"), Some(UrlPlain), Absent, Absent, Absent)>>),
                    Some(<<CaptionEntry(Some("en"), Some(UrlPlain), Absent, Absent, Absent),
                           CaptionEntry(Some("en"), Some(UrlSrv3), Absent, Some("asr"), Absent)>>)}}

PlayabilityOk == Some([status |-> Some("OK"), reason |-> Absent])

PlayabilityBlocks ==
    {Absent, PlayabilityOk,
     Some([status |-> Some("ERROR"), reason |-> Some(<<"Video", "unavailable">>)]),
     Some([status |-> Some("LOGIN_REQUIRED"), reason |-> Some(<<BotPhrase>>)])}

Documents ==
    {[playabilityStatus |-> PlayabilityOk, captions |-> cs] : cs \in CaptionsSections}
    \cup {[playabilityStatus |-> ps, captions |-> cs] :
            <<ps, cs>> \in PlayabilityBlocks \X FewCaptionsSections}

\* list_transcripts hands its argument on as it is: an identifier or a URL
BuildVideoIds == {IdA, <<"https://", "youtu.be", "/">> \o IdB}

BuildInit ==
    /\ NoCall
    /\ video_id \in BuildVideoIds
    /\ innertube_data \in Documents
    /\ built = None
    /\ url_or_id = None /\ resolved = None
    /\ list = None /\ language_codes = None /\ op = None /\ found = None

Build ==
    /\ built = None
    /\ built' = ExtractCaptionsJson(video_id, innertube_data)
    /\ UNCHANGED <<url_or_id, resolved, list, language_codes, op, found,
                   video_id, innertube_data, callVars>>

BuildNext == Build

BuildSpec == BuildInit /\ [][BuildNext]_vars

(***************************************************************************)
(* The upstream track list, as the claims about the catalog build read it. *)
(***************************************************************************)
HasRenderer ==
    /\ innertube_data.captions # Absent
    /\ Get(innertube_data.captions).playerCaptionsTracklistRenderer # Absent

Renderer == Get(Get(innertube_data.captions).playerCaptionsTracklistRenderer)

\* the entries of captionTracks, none when the array is missing
UpstreamTracks ==
    IF HasRenderer /\ Renderer.captionTracks # Absent
    THEN Get(Renderer.captionTracks)
    ELSE <<>>

\* an entry with a language code and a source URL
Survives(e) == e.languageCode # Absent /\ e.baseUrl # Absent

\* positions of the surviving upstream entries for code c, generated or authored
UpstreamOf(c, generated) ==
    {i \in 1..Len(UpstreamTracks) :
        /\ Survives(UpstreamTracks[i])
        /\ UpstreamTracks[i].languageCode = Some(c)
        /\ (UpstreamTracks[i].kind = Some("asr")) = generated}

BothUpstream(c) == UpstreamOf(c, FALSE) # {} /\ UpstreamOf(c, TRUE) # {}

Last(positions) == CHOOSE i \in positions : \A j \in positions : j <= i

\* track t is what the build reads from upstream entry e
ReadFrom(t, e) ==
    /\ Some(t.language_code) = e.languageCode
    /\ t.is_generated = (e.kind = Some("asr"))
    /\ t.is_translatable = (e.isTranslatable = Some(TRUE))
    /\ t.language = IF e.name = Absent THEN t.language_code ELSE Get(e.name)

GatePassed == AssertPlayability(video_id, innertube_data).ok

\* C8, as stated: in a returned catalog no code is a key of both mappings, and
\* of an authored and a generated upstream track for one code the authored one
\* is kept.
C8_CodeInAtMostOneMapping ==
    (built # None /\ built.ok) =>
        \A c \in Codes :
            /\ ~(c \in DOMAIN built.list.manually_created
                 /\ c \in DOMAIN built.list.generated)
            /\ BothUpstream(c) => c \in DOMAIN built.list.manually_created

\* C8, amended: in a returned catalog a code is a key of both mappings exactly
\* when the upstream list holds both an authored and a generated track for it;
\* the authored one then takes precedence at lookup: find_transcript for that
\* code returns the authored track.
C8_BothKeptAuthoredFirstAtLookup ==
    (built # None /\ built.ok) =>
        \A c \in Codes :
            /\ (c \in DOMAIN built.list.manually_created
                /\ c \in DOMAIN built.list.generated) <=> BothUpstream(c)
            /\ BothUpstream(c) =>
                  /\ FindTranscript(built.list, <<c>>).ok
                  /\ FindTranscript(built.list, <<c>>).track
                        = built.list.manually_created[c]
                  /\ ~FindTranscript(built.list, <<c>>).track.is_generated

C8_Witness ==
    /\ built # None /\ built.ok
    /\ Len(UpstreamTracks) = 2
    /\ UpstreamTracks[1].kind # Some("asr")
    /\ BothUpstream("es")
    /\ "es" \in DOMAIN built.list.manually_created
    /\ "es" \in DOMAIN built.list.generated
    /\ FindTranscript(built.list, <<"es">>).track = built.list.manually_created["es"]

\* C9: when the upstream list holds both an authored and a generated entry for
\* one code, each with a code and a URL, the returned catalog holds the authored
\* one under that code in the authored mapping and the generated one under that
\* code in the generated mapping.
C9_BothRetained ==
    (built # None /\ GatePassed) =>
        \A c \in Codes :
            BothUpstream(c) =>
                /\ built.ok
                /\ c \in DOMAIN built.list.manually_created
                /\ c \in DOMAIN built.list.generated
                /\ ReadFrom(built.list.manually_created[c],
                            UpstreamTracks[Last(UpstreamOf(c, FALSE))])
                /\ ReadFrom(built.list.generated[c],
                            UpstreamTracks[Last(UpstreamOf(c, TRUE))])

\* the generated entry comes first and the authored one of the same code second
C9_Witness ==
    /\ built # None /\ built.ok
    /\ Len(UpstreamTracks) = 2
    /\ UpstreamOf("en", TRUE) = {1}
    /\ UpstreamOf("en", FALSE) = {2}
    /\ built.list.generated["en"].is_generated
    /\ ~built.list.manually_created["en"].is_generated

\* C10: a returned catalog holds at least one track; when the gate has passed
\* and the captions section is absent or no caption-track entry has both a code
\* and a URL, the build fails with TranscriptsDisabled carrying the video id.
C10_NeverAnEmptyCatalog ==
    built # None =>
        /\ built.ok =>
              DOMAIN built.list.manually_created
                  \cup DOMAIN built.list.generated # {}
        /\ (/\ GatePassed
            /\ \/ ~HasRenderer
               \/ \A i \in 1..Len(UpstreamTracks) : ~Survives(UpstreamTracks[i]))
              => /\ ~built.ok
                 /\ built.kind = "TranscriptsDisabled"
                 /\ built.video_id = video_id

\* every entry of a two-entry track list lacks its code or its URL
C10_Witness ==
    /\ built # None
    /\ GatePassed
    /\ Len(UpstreamTracks) = 2
    /\ UpstreamTracks[1].languageCode = Absent
    /\ UpstreamTracks[2].baseUrl = Absent
    /\ ~built.ok
    /\ built.kind = "TranscriptsDisabled"

(***************************************************************************)
(* The playability gate's specification: one call of assert_playability on *)
(* a playability block, for an identifier given as an id or as a URL.      *)
(***************************************************************************)
GateStatuses ==
    {Absent, Some("OK"), Some("LOGIN_REQUIRED"), Some("ERROR"), Some("UNPLAYABLE"),
     Some("LIVE_STREAM_OFFLINE")}

GateReasons ==
    {Absent, Some(<<>>),
     Some(<<BotPhrase>>),
     Some(<<AgePhrase>>),
     Some(<<"This video may be ", AgePhrase, ".">>),
     Some(<<BotPhrase, ". ", AgePhrase>>),
     Some(<<"This video is ", "unavailable">>),
     Some(<<"Private video">>)}

GateBlocks ==
    {Absent} \cup
    {Some([status |-> s, reason |-> r]) : <<s, r>> \in GateStatuses \X GateReasons}

GateVideoIds ==
    {IdA,
     <<"https://", "youtu.be", "/">> \o IdB,
     <<"http://", "youtube.com", "/", "watch", "?", "v", "=">> \o IdA,
     <<"youtu.be", "/">> \o IdA}

GateInit ==
    /\ NoCall
    /\ video_id \in GateVideoIds
    /\ innertube_data \in
           {[playabilityStatus |-> b, captions |-> Absent] : b \in GateBlocks}
    /\ built = None
    /\ url_or_id = None /\ resolved = None
    /\ list = None /\ language_codes = None /\ op = None /\ found = None

CheckPlayability ==
    /\ gated = None
    /\ gated' = AssertPlayability(video_id, innertube_data)
    /\ UNCHANGED <<url_or_id, resolved, list, language_codes, op, found,
                   video_id, innertube_data, built, callRest>>

GateNext == CheckPlayability

GateSpec == GateInit /\ [][GateNext]_vars

\* the playability block's status is s
StatusIs(s) ==
    /\ innertube_data.playabilityStatus # Absent
    /\ Get(innertube_data.playabilityStatus).status = Some(s)

\* the reason text of the playability block, empty when there is none
RawReason ==
    IF innertube_data.playabilityStatus = Absent
       \/ Get(innertube_data.playabilityStatus).reason = Absent
    THEN <<>>
    ELSE Get(Get(innertube_data.playabilityStatus).reason)

\* the identifier looks like a URL: it begins with http:// or https://
LooksLikeUrl == video_id # <<>> /\ video_id[1] \in {"http://", "https://"}

BotChallenge == StatusIs("LOGIN_REQUIRED") /\ Contains(RawReason, BotPhrase)

AgeGate == StatusIs("LOGIN_REQUIRED") /\ Contains(RawReason, AgePhrase)

Unavailable == StatusIs("ERROR") /\ Contains(RawReason, "unavailable")

\* C11: the gate maps (status, reason, identifier) exactly: no block or status
\* OK passes; LOGIN_REQUIRED with the bot phrase is RequestBlocked, with the age
\* phrase (and no bot phrase) AgeRestricted; ERROR with "unavailable" is
\* InvalidVideoId for an identifier that begins with http:// or https:// and
\* VideoUnavailable otherwise; everything else is VideoUnplayable with the video
\* id and the reason text as received.
C11_GateMapping ==
    gated # None =>
        /\ innertube_data.playabilityStatus = Absent => gated = [ok |-> TRUE]
        /\ StatusIs("OK") => gated = [ok |-> TRUE]
        /\ BotChallenge =>
              gated = [ok |-> FALSE, kind |-> "RequestBlocked", video_id |-> video_id]
        /\ (AgeGate /\ ~BotChallenge) =>
              gated = [ok |-> FALSE, kind |-> "AgeRestricted", video_id |-> video_id]
        /\ (Unavailable /\ LooksLikeUrl) =>
              gated = [ok |-> FALSE, kind |-> "InvalidVideoId", video_id |-> video_id]
        /\ (Unavailable /\ ~LooksLikeUrl) =>
              gated = [ok |-> FALSE, kind |-> "VideoUnavailable", video_id |-> video_id]
        /\ (/\ innertube_data.playabilityStatus # Absent
            /\ ~StatusIs("OK") /\ ~BotChallenge /\ ~AgeGate /\ ~Unavailable) =>
              gated = [ok |-> FALSE, kind |-> "VideoUnplayable",
                       video_id |-> video_id, reason |-> RawReason]

C11_Witness ==
    /\ gated # None
    /\ Unavailable /\ LooksLikeUrl
    /\ gated.kind = "InvalidVideoId"

(***************************************************************************)
(* The client: YouTubeTranscript::new / with_delay, and the requests a     *)
(* call issues.  The log holds, in order, the construction, every wait of  *)
(* delay(), every request handed to the HTTP client with the response it   *)
(* got, and every other step of the call.                                  *)
(***************************************************************************)
DefaultDelayMs == 500     \* Self::with_delay(500)

NewEvent == [kind |-> "new"]

WithDelayEvent(ms) == [kind |-> "with_delay", ms |-> ms]

DelayEvent(ms) == [kind |-> "delay", ms |-> ms]

\* a request and the response it got
GetEvent(url, response) == [kind |-> "GET", url |-> url, response |-> response]

PostEvent(url, body, response) ==
    [kind |-> "POST", url |-> url, body |-> body, response |-> response]

\* a step of the call that neither waits nor sends
StepEvent(name) == [kind |-> "step", name |-> name]

\* WATCH_URL.replace("{video_id}", video_id)
WatchUrl(vid) == <<"https://www.youtube.com/watch?v=">> \o vid

\* INNERTUBE_API_URL.replace("{api_key}", api_key)
InnertubeApiUrl(key) == <<"https://www.youtube.com/youtubei/v1/player?key=">> \o key

\* the JSON body of the internal-API request
InnertubeContext(vid) ==
    [context |-> [client |-> [clientName |-> "ANDROID",
                              clientVersion |-> "20.10.38"]],
     videoId |-> vid]

(***************************************************************************)
(* Responses.  A request either fails in transport (SendError) or returns  *)
(* a status and a body; the body is Absent when reading it fails (for the  *)
(* internal API: when it is not a JSON document).                          *)
(***************************************************************************)
SendError == [sent |-> FALSE]

Response(status, body) == [sent |-> TRUE, status |-> status, body |-> body]

Statuses == {200, 206, 301, 404, 429, 503}

\* StatusCode::is_success
IsSuccess(status) == status >= 200 /\ status < 300

StatusText(status) ==
    CASE status = 200 -> "200" [] status = 206 -> "206" [] status = 301 -> "301"
      [] status = 404 -> "404" [] status = 429 -> "429" [] status = 503 -> "503"

\* StatusCode::canonical_reason
CanonicalReason(status) ==
    CASE status = 200 -> "OK"
      [] status = 206 -> "Partial Content"
      [] status = 301 -> "Moved Permanently"
      [] status = 404 -> "Not Found"
      [] status = 429 -> "Too Many Requests"
      [] status = 503 -> "Service Unavailable"

HttpError(message) == [ok |-> FALSE, kind |-> "HttpError", message |-> message]

\* the mutant of CheckHttpErrors without the 429 test
CheckHttpErrorsNo429(status, vid) ==
    IF ~IsSuccess(status)
    THEN HttpError(<<"HTTP ", StatusText(status), " ", CanonicalReason(status),
                     ": ", CanonicalReason(status)>>)
    ELSE Passed

\* "HTTP {}: {}" of the status (shown as code and reason) and its reason
CheckHttpErrors(status, vid) ==
    IF status = 429 THEN Failed("IpBlocked", vid)
    ELSE IF ~IsSuccess(status)
    THEN HttpError(<<"HTTP ", StatusText(status), " ", CanonicalReason(status),
                     ": ", CanonicalReason(status)>>)
    ELSE Passed

(***************************************************************************)
(* The watch page.  Its text is a sequence of chunks: the markers the code *)
(* searches for, the pieces of the tokens its patterns match, and single   *)
(* characters.                                                             *)
(***************************************************************************)
ConsentMarker == "action=\"https://consent.youtube.com/s\""

HiddenOpen == "name=\"v\" value=\""

Quote == "\""

Newline == "\n"

RecaptchaClass == "class=\"g-recaptcha\""

Recaptcha == "g-recaptcha"

KeyLabel == "\"INNERTUBE_API_KEY\":"

\* the chunks that have "g-recaptcha" in them
HasRecaptcha(c) == c \in {Recaptcha, RecaptchaClass}

\* \s of the regex crate
IsSpace(c) == c \in {" ", Newline}

\* [a-zA-Z0-9_-]
IsKeyChar(c) == c \in {"a", "7", "-", "_", "K"}

\* the pattern name="v" value="(.*?)" matches at i: the opening at i and a
\* closing quote after it on the same line
HiddenValueAt(page, i) ==
    /\ page[i] = HiddenOpen
    /\ \E j \in (i + 1)..Len(page) :
          /\ page[j] = Quote
          /\ \A k \in (i + 1)..(j - 1) : page[k] # Newline

\* the mutant of CreateConsentCookie that accepts every consent page
CreateConsentCookieAlways(page, vid) == Passed

CreateConsentCookie(page, vid) ==
    IF \E i \in 1..Len(page) : HiddenValueAt(page, i)
    THEN Passed
    ELSE Failed("FailedToCreateConsentCookie", vid)

RECURSIVE SkipSpaces(_, _)
\* the first position from i on that holds no whitespace
SkipSpaces(page, i) ==
    IF i <= Len(page) /\ IsSpace(page[i]) THEN SkipSpaces(page, i + 1) ELSE i

RECURSIVE SkipKeyChars(_, _)
\* the first position from i on that holds no key character
SkipKeyChars(page, i) ==
    IF i <= Len(page) /\ IsKeyChar(page[i]) THEN SkipKeyChars(page, i + 1) ELSE i

\* the match of "INNERTUBE_API_KEY":\s*"([a-zA-Z0-9_-]+)" that starts at i:
\* its group 1, or Absent
KeyAt(page, i) ==
    LET q == SkipSpaces(page, i + 1)
        e == SkipKeyChars(page, q + 1)
    IN  IF /\ page[i] = KeyLabel
           /\ q <= Len(page) /\ page[q] = Quote
           /\ e > q + 1
           /\ e <= Len(page) /\ page[e] = Quote
        THEN Some(SubSeq(page, q + 1, e - 1))
        ELSE Absent

\* Regex::captures: the leftmost match
FirstKey(page) ==
    LET at == {i \in 1..Len(page) : KeyAt(page, i) # Absent}
    IN  IF at = {} THEN Absent
        ELSE KeyAt(page, CHOOSE i \in at : \A j \in at : i <= j)

OkKey(key) == [ok |-> TRUE, key |-> key]

\* the mutant of ExtractInnertubeApiKey that looks for the key first
ExtractInnertubeApiKeyKeyFirst(page, vid) ==
    IF FirstKey(page) # Absent THEN OkKey(Get(FirstKey(page)))
    ELSE IF \E i \in 1..Len(page) : HasRecaptcha(page[i])
    THEN Failed("IpBlocked", vid)
    ELSE Failed("YouTubeDataUnparsable", vid)

ExtractInnertubeApiKey(page, vid) ==
    IF Contains(page, RecaptchaClass) \/ \E i \in 1..Len(page) : HasRecaptcha(page[i])
    THEN Failed("IpBlocked", vid)
    ELSE IF FirstKey(page) # Absent THEN OkKey(Get(FirstKey(page)))
    ELSE Failed("YouTubeDataUnparsable", vid)

(***************************************************************************)
(* YouTubeTranscript::fetch_transcript_data, its pure parts.               *)
(***************************************************************************)
PoMarker == "&exp=xpe"

\* the chunks that have "&exp=xpe" in them
HasPoMarker(c) == c \in {PoMarker, "&exp=xpe&pot=1"}

\* base_url, with "&tlang=" and the target after it when there is one
RequestUrl(info, to) ==
    IF to = Absent THEN info.base_url
    ELSE info.base_url \o <<"&tlang=", Get(to)>>

\* the mutant of NeedsPoToken that looks at the track's own URL only where it ends
NeedsPoTokenAtEnd(url) == url # <<>> /\ url[Len(url)] = PoMarker

\* url.contains("&exp=xpe")
NeedsPoToken(url) == \E i \in 1..Len(url) : HasPoMarker(url[i])

RECURSIVE FindLanguage(_, _)
\* translation_languages.iter().find(|t| t.language_code == target_lang)
FindLanguage(translation_languages, target_lang) ==
    IF translation_languages = <<>> THEN Absent
    ELSE IF Head(translation_languages).language_code = target_lang
         THEN Some(Head(translation_languages))
    ELSE FindLanguage(Tail(translation_languages), target_lang)

\* the language name of the response
ResponseLanguage(info, to) ==
    IF to # Absent
    THEN LET t == FindLanguage(info.translation_languages, Get(to))
         IN  IF t # Absent THEN Get(t).language ELSE info.language
    ELSE info.language

OkResponse(response) == [ok |-> TRUE, response |-> response]

\* the mutant of TranscriptResponse that names a translation by its code when
\* the track does not list it
TranscriptResponseNoFallback(vid, info, to, items) ==
    [video_id |-> vid,
     language |-> IF to # Absent
                     /\ FindLanguage(info.translation_languages, Get(to)) = Absent
                  THEN Get(to) ELSE ResponseLanguage(info, to),
     language_code |-> IF to # Absent THEN Get(to) ELSE info.language_code,
     is_generated |-> info.is_generated \/ to # Absent,
     is_translatable |-> info.is_translatable,
     transcript |-> items]

TranscriptResponse(vid, info, to, items) ==
    [video_id |-> vid,
     language |-> ResponseLanguage(info, to),
     language_code |-> IF to # Absent THEN Get(to) ELSE info.language_code,
     is_generated |-> info.is_generated \/ to # Absent,
     is_translatable |-> info.is_translatable,
     transcript |-> items]

(***************************************************************************)
(* TranscriptParser::parse (src/parser.rs, as spec.md section 4.7 gives    *)
(* it): a timed-text document is the sequence of its cue elements, each    *)
(* with its text and its start and dur attributes as written; Malformed    *)
(* stands for markup that is not well-formed.                              *)
(***************************************************************************)
Malformed == [malformed |-> TRUE]

Cue(text, start, dur) == [text |-> text, start |-> start, dur |-> dur]

\* one entity to the character it stands for
DecodeEntity(c) ==
    CASE c = "&amp;" -> "&"
      [] c = "&#39;" -> "'"
      [] OTHER -> c

TranscriptItem(cue) ==
    [text |-> [i \in 1..Len(cue.text) |-> DecodeEntity(cue.text[i])],
     start |-> cue.start, duration |-> cue.dur]

XmlParseError(message) ==
    [ok |-> FALSE, kind |-> "XmlParseError", message |-> message]

OkItems(items) == [ok |-> TRUE, items |-> items]

ParseTranscript(xml) ==
    IF \E i \in 1..Len(xml) : xml[i] = Malformed
    THEN XmlParseError(<<"Failed to parse XML: ", "error">>)
    ELSE OkItems([i \in 1..Len(xml) |-> TranscriptItem(xml[i])])

(***************************************************************************)
(* translate_transcript: the two tests on the selected track.              *)
(***************************************************************************)
TranslationLanguageNotAvailable(target) ==
    [ok |-> FALSE, kind |-> "TranslationLanguageNotAvailable", language |-> target]

\* the mutant of TranslationChecks that looks for the target first
TranslationChecksTargetFirst(info, target, vid) ==
    IF FindLanguage(info.translation_languages, target) = Absent
    THEN TranslationLanguageNotAvailable(target)
    ELSE IF ~info.is_translatable THEN Failed("NotTranslatable", vid)
    ELSE Passed

TranslationChecks(info, target, vid) ==
    IF ~info.is_translatable THEN Failed("NotTranslatable", vid)
    ELSE IF FindLanguage(info.translation_languages, target) = Absent
    THEN TranslationLanguageNotAvailable(target)
    ELSE Passed

(***************************************************************************)
(* send(), check_http_errors and text() / json() on one response: the body *)
(* read, or the error of the first of the three that fails.                *)
(***************************************************************************)
OkBody(body) == [ok |-> TRUE, body |-> body]

JsonParseError(message) ==
    [ok |-> FALSE, kind |-> "JsonParseError", message |-> message]

ReadBody(response, vid, send_error, read_error) ==
    IF ~response.sent THEN send_error
    ELSE IF ~CheckHttpErrors(response.status, vid).ok
         THEN CheckHttpErrors(response.status, vid)
    ELSE IF response.body = Absent THEN read_error
    ELSE OkBody(Get(response.body))

(***************************************************************************)
(* What the platform may answer.                                           *)
(***************************************************************************)
DelayChoices == {0, 1000}

KeyTokenA == <<KeyLabel, Quote, "K", "7", Quote>>

KeyTokenB == <<KeyLabel, " ", Newline, Quote, "a", "_", "-", Quote>>

Pages ==
    {<<"<html>">> \o KeyTokenA,
     <<"<html>">> \o KeyTokenB,
     <<"<html>">>,
     <<KeyLabel, Quote, Quote>>,
     <<KeyLabel, Quote, "a", "!", Quote>>,
     <<KeyLabel, Quote, Quote, KeyLabel, Quote, "a", Quote>>,
     <<RecaptchaClass>> \o KeyTokenA,
     <<Recaptcha>> \o KeyTokenB,
     <<Recaptcha>>,
     <<ConsentMarker, HiddenOpen, "c", "b", Quote>> \o KeyTokenA,
     <<ConsentMarker, HiddenOpen, Quote>>,
     <<ConsentMarker, HiddenOpen, "c", Newline, Quote>>,
     <<ConsentMarker>> \o KeyTokenA}

PageResponses ==
    {SendError}
    \cup {Response(s, Absent) : s \in Statuses}
    \cup {Response(200, Some(p)) : p \in Pages}
    \cup {Response(s, Some(<<"<html>">> \o KeyTokenA)) : s \in {206, 404, 429}}

UrlProtected == <<"https://www.youtube.com/api/timedtext?v=3", PoMarker>>

EnAuthored ==
    CaptionEntry(Some("en"), Some(UrlSrv3), Some("English"), Absent, Some(TRUE))

EsGenerated ==
    CaptionEntry(Some("es"), Some(UrlPlain), Absent, Some("asr"), Absent)

EnProtected ==
    CaptionEntry(Some("en"), Some(UrlProtected), Some("English"), Absent, Some(TRUE))

GermanFrench ==
    <<TranslationEntry(Some("de"), Some("German")),
      TranslationEntry(Some("fr"), Some("French"))>>

PipelineDocument(playability, tracks) ==
    [playabilityStatus |-> playability,
     captions |-> Some([playerCaptionsTracklistRenderer |->
                  Some([translationLanguages |-> Some(GermanFrench),
                        captionTracks |-> Some(tracks)])])]

PipelineDocuments ==
    {PipelineDocument(PlayabilityOk, <<EnAuthored, EsGenerated>>),
     PipelineDocument(PlayabilityOk, <<EsGenerated>>),
     PipelineDocument(PlayabilityOk, <<EnProtected>>),
     PipelineDocument(
         Some([status |-> Some("LOGIN_REQUIRED"), reason |-> Some(<<BotPhrase>>)]),
         <<EnAuthored>>),
     [playabilityStatus |-> PlayabilityOk, captions |-> Absent]}

ApiResponses ==
    {SendError}
    \cup {Response(s, Absent) : s \in Statuses}
    \cup {Response(200, Some(d)) : d \in PipelineDocuments}
    \cup {Response(s, Some(PipelineDocument(PlayabilityOk, <<EnAuthored>>))) :
            s \in {206, 429, 503}}

XmlBodies ==
    {<<>>,
     <<Cue(<<"a", "&amp;", "7">>, "0.0", "1.5"), Cue(<<"&#39;", "a">>, "1.5", "2.0")>>,
     <<Cue(<<"a">>, "0.0", "1.5"), Malformed>>}

CaptionResponses ==
    {SendError}
    \cup {Response(s, Absent) : s \in Statuses}
    \cup {Response(200, Some(x)) : x \in XmlBodies}
    \cup {Response(s, Some(<<>>)) : s \in {206, 301, 429}}

\* the arguments of the public operations
CallVideoIds == {IdA, IdShort, <<"https://", "youtu.be", "/">> \o IdB}

FetchLanguages == {Absent, Some(<<"es", "en">>), Some(<<"fr">>)}

SourceLanguages == {<<"en">>, <<"es", "en">>, <<"fr">>}

TargetLanguages == {"de", "it"}

(***************************************************************************)
(* The calls, step by step.  A call stands at pc; it moves at every await  *)
(* (a wait of delay(), a request with the reading of its response) and at  *)
(* every pure step between them.  Return(r) ends the call with r.          *)
(***************************************************************************)
\* what the steps of a single call leave alone: the lookups' state, and the
\* cookie store, which these steps do not model
lookupVars == <<url_or_id, resolved, list, language_codes, op, cookie_store>>

Return(r) == result' = r /\ pc' = "done"

\* where the call goes once create_consent_cookie has succeeded, without the wait
AfterConsentNoDelay == "retry_get"

\* where the call goes once create_consent_cookie has succeeded
AfterConsent == "retry_delay"

DelayPositions ==
    {"html_delay", "retry_delay", "list_delay", "api_delay", "data_delay"}

AfterDelay(p) ==
    CASE p = "html_delay" -> "html_get"
      [] p = "retry_delay" -> "retry_get"
      [] p = "list_delay" -> "extract_key"
      [] p = "api_delay" -> "api_post"
      [] p = "data_delay" -> "data_get"

New ==
    /\ pc = "new"
    /\ delay_ms' = DefaultDelayMs
    /\ log' = <<NewEvent>>
    /\ pc' = "ready"
    /\ UNCHANGED <<lookupVars, found, video_id, innertube_data, built, gated,
                   call, html, api_key, transcript_info, translate_to, result>>

WithDelay ==
    /\ pc = "new"
    /\ \E ms \in DelayChoices :
          /\ delay_ms' = ms
          /\ log' = <<WithDelayEvent(ms)>>
    /\ pc' = "ready"
    /\ UNCHANGED <<lookupVars, found, video_id, innertube_data, built, gated,
                   call, html, api_key, transcript_info, translate_to, result>>

CallListTranscripts ==
    /\ pc = "ready"
    /\ \E vid \in CallVideoIds :
          /\ video_id' = vid
          /\ call' = [entry |-> "list_transcripts"]
    /\ pc' = "html_delay"
    /\ UNCHANGED <<lookupVars, found, innertube_data, built, gated, delay_ms,
                   html, api_key, transcript_info, translate_to, log, result>>

CallFetchTranscript ==
    /\ pc = "ready"
    /\ \E vid \in CallVideoIds, languages \in FetchLanguages :
          /\ video_id' = vid
          /\ call' = [entry |-> "fetch_transcript", languages |-> languages]
    /\ pc' = "html_delay"
    /\ UNCHANGED <<lookupVars, found, innertube_data, built, gated, delay_ms,
                   html, api_key, transcript_info, translate_to, log, result>>

CallTranslateTranscript ==
    /\ pc = "ready"
    /\ \E vid \in CallVideoIds, source \in SourceLanguages, target \in TargetLanguages :
          /\ video_id' = vid
          /\ call' = [entry |-> "translate_transcript",
                      source_languages |-> source, target_language |-> target]
    /\ pc' = "html_delay"
    /\ UNCHANGED <<lookupVars, found, innertube_data, built, gated, delay_ms,
                   html, api_key, transcript_info, translate_to, log, result>>

\* self.delay().await
Delay ==
    /\ pc \in DelayPositions
    /\ log' = Append(log, DelayEvent(delay_ms))
    /\ pc' = AfterDelay(pc)
    /\ UNCHANGED <<lookupVars, found, video_id, innertube_data, built, gated,
                   delay_ms, call, html, api_key, transcript_info, translate_to,
                   result>>

\* fetch_video_html: the first request, and the consent test on its body
GetPage ==
    /\ pc = "html_get"
    /\ \E response \in PageResponses :
          LET got == ReadBody(response, video_id,
                              HttpError(<<"Failed to fetch HTML: ", "error">>),
                              HttpError(<<"Failed to read HTML: ", "error">>))
          IN  /\ log' = Append(log, GetEvent(WatchUrl(video_id), response))
              /\ IF ~got.ok THEN Return(got) /\ html' = html
                 ELSE /\ html' = got.body
                      /\ IF Contains(got.body, ConsentMarker)
                         THEN IF CreateConsentCookie(got.body, video_id).ok
                              THEN pc' = AfterConsent /\ result' = result
                              ELSE Return(CreateConsentCookie(got.body, video_id))
                         ELSE pc' = "list_delay" /\ result' = result
    /\ UNCHANGED <<lookupVars, found, video_id, innertube_data, built, gated,
                   delay_ms, call, api_key, transcript_info, translate_to>>

\* the mutant of GetPageRetry that asks for the page once more when the consent
\* form is still there
GetPageRetryAgain ==
    /\ pc = "retry_get"
    /\ \E response \in PageResponses :
          LET got == ReadBody(response, video_id,
                              HttpError(<<"Failed to fetch HTML after consent: ", "error">>),
                              HttpError(<<"Failed to read HTML: ", "error">>))
          IN  /\ log' = Append(log, GetEvent(WatchUrl(video_id), response))
              /\ IF ~got.ok THEN Return(got) /\ html' = html
                 ELSE /\ html' = got.body
                      /\ IF Contains(got.body, ConsentMarker)
                         THEN IF Len(SelectSeq(log, LAMBDA e : e.kind = "GET")) < 2
                              THEN pc' = "retry_delay" /\ result' = result
                              ELSE Return(Failed("FailedToCreateConsentCookie", video_id))
                         ELSE pc' = "list_delay" /\ result' = result
    /\ UNCHANGED <<lookupVars, found, video_id, innertube_data, built, gated,
                   delay_ms, call, api_key, transcript_info, translate_to>>

\* fetch_video_html: the request after the consent page
GetPageRetry ==
    /\ pc = "retry_get"
    /\ \E response \in PageResponses :
          LET got == ReadBody(response, video_id,
                              HttpError(<<"Failed to fetch HTML after consent: ", "error">>),
                              HttpError(<<"Failed to read HTML: ", "error">>))
          IN  /\ log' = Append(log, GetEvent(WatchUrl(video_id), response))
              /\ IF ~got.ok THEN Return(got) /\ html' = html
                 ELSE /\ html' = got.body
                      /\ IF Contains(got.body, ConsentMarker)
                         THEN Return(Failed("FailedToCreateConsentCookie", video_id))
                         ELSE pc' = "list_delay" /\ result' = result
    /\ UNCHANGED <<lookupVars, found, video_id, innertube_data, built, gated,
                   delay_ms, call, api_key, transcript_info, translate_to>>

\* list_transcripts: extract_innertube_api_key on the page
ExtractApiKey ==
    /\ pc = "extract_key"
    /\ log' = Append(log, StepEvent("extract_innertube_api_key"))
    /\ LET key == ExtractInnertubeApiKey(html, video_id)
       IN  IF key.ok
           THEN api_key' = key.key /\ pc' = "api_delay" /\ result' = result
           ELSE Return(key) /\ api_key' = api_key
    /\ UNCHANGED <<lookupVars, found, video_id, innertube_data, built, gated,
                   delay_ms, call, html, transcript_info, translate_to>>

\* fetch_innertube_data: the request
PostApi ==
    /\ pc = "api_post"
    /\ \E response \in ApiResponses :
          LET got == ReadBody(response, video_id,
                              HttpError(<<"Failed to fetch InnerTube data: ", "error">>),
                              JsonParseError(<<"Failed to parse InnerTube response: ", "error">>))
          IN  /\ log' = Append(log, PostEvent(InnertubeApiUrl(api_key),
                                              InnertubeContext(video_id), response))
              /\ IF ~got.ok THEN Return(got) /\ innertube_data' = innertube_data
                 ELSE /\ innertube_data' = got.body
                      /\ pc' = "extract_captions" /\ result' = result
    /\ UNCHANGED <<lookupVars, found, video_id, built, gated, delay_ms, call,
                   html, api_key, transcript_info, translate_to>>

\* list_transcripts: extract_captions_json, the playability gate first
ExtractCatalog ==
    /\ pc = "extract_captions"
    /\ log' = Append(log, StepEvent("extract_captions_json"))
    /\ gated' = AssertPlayability(video_id, innertube_data)
    /\ built' = ExtractCaptionsJson(video_id, innertube_data)
    /\ IF ~built'.ok \/ call.entry = "list_transcripts"
       THEN Return(built')
       ELSE pc' = "find" /\ result' = result
    /\ UNCHANGED <<lookupVars, found, video_id, innertube_data, delay_ms, call,
                   html, api_key, transcript_info, translate_to>>

\* the mutant of SelectForFetch that fetches some track of the catalog when no
\* requested language matches
SelectForFetchAnyTrack ==
    /\ pc = "find" /\ call.entry = "fetch_transcript"
    /\ log' = Append(log, StepEvent("find_transcript"))
    /\ LET languages == IF call.languages = Absent THEN <<"en">>
                        ELSE Get(call.languages)
           any == IF DOMAIN built.list.manually_created # {}
                  THEN built.list.manually_created[
                           CHOOSE c \in DOMAIN built.list.manually_created : TRUE]
                  ELSE built.list.generated[
                           CHOOSE c \in DOMAIN built.list.generated : TRUE]
       IN  /\ found' = FindTranscript(built.list, languages)
           /\ transcript_info' = IF found'.ok THEN found'.track ELSE any
    /\ translate_to' = Absent
    /\ pc' = "data_check" /\ result' = result
    /\ UNCHANGED <<lookupVars, video_id, innertube_data, built, gated, delay_ms,
                   call, html, api_key>>

\* fetch_transcript: the languages asked for or "en", and find_transcript
SelectForFetch ==
    /\ pc = "find" /\ call.entry = "fetch_transcript"
    /\ log' = Append(log, StepEvent("find_transcript"))
    /\ LET languages == IF call.languages = Absent THEN <<"en">>
                        ELSE Get(call.languages)
       IN  found' = FindTranscript(built.list, languages)
    /\ IF found'.ok
       THEN /\ transcript_info' = found'.track
            /\ translate_to' = Absent
            /\ pc' = "data_check" /\ result' = result
       ELSE /\ Return(found')
            /\ UNCHANGED <<transcript_info, translate_to>>
    /\ UNCHANGED <<lookupVars, video_id, innertube_data, built, gated, delay_ms,
                   call, html, api_key>>

\* translate_transcript: find_transcript and the two tests on the track
SelectForTranslate ==
    /\ pc = "find" /\ call.entry = "translate_transcript"
    /\ log' = Append(log, StepEvent("find_transcript"))
    /\ found' = FindTranscript(built.list, call.source_languages)
    /\ IF ~found'.ok
       THEN Return(found') /\ UNCHANGED <<transcript_info, translate_to>>
       ELSE LET checks == TranslationChecks(found'.track, call.target_language,
                                            video_id)
            IN  IF ~checks.ok
                THEN Return(checks) /\ UNCHANGED <<transcript_info, translate_to>>
                ELSE /\ transcript_info' = found'.track
                     /\ translate_to' = Some(call.target_language)
                     /\ pc' = "data_check" /\ result' = result
    /\ UNCHANGED <<lookupVars, video_id, innertube_data, built, gated, delay_ms,
                   call, html, api_key>>

\* fetch_transcript_data: the request URL and the test for the protected stream
CheckPoToken ==
    /\ pc = "data_check"
    /\ log' = Append(log, StepEvent("fetch_transcript_data"))
    /\ IF NeedsPoToken(RequestUrl(transcript_info, translate_to))
       THEN Return(Failed("PoTokenRequired", video_id))
       ELSE pc' = "data_delay" /\ result' = result
    /\ UNCHANGED <<lookupVars, found, video_id, innertube_data, built, gated,
                   delay_ms, call, html, api_key, transcript_info, translate_to>>

\* fetch_transcript_data: the request, the parse and the response
GetCaption ==
    /\ pc = "data_get"
    /\ \E response \in CaptionResponses :
          LET got == ReadBody(response, video_id,
                              HttpError(<<"Failed to fetch transcript: ", "error">>),
                              HttpError(<<"Failed to read transcript: ", "error">>))
              parsed == ParseTranscript(got.body)
          IN  /\ log' = Append(log, GetEvent(RequestUrl(transcript_info, translate_to),
                                             response))
              /\ IF ~got.ok THEN Return(got)
                 ELSE IF ~parsed.ok THEN Return(parsed)
                 ELSE Return(OkResponse(TranscriptResponse(
                                 video_id, transcript_info, translate_to, parsed.items)))
    /\ UNCHANGED <<lookupVars, found, video_id, innertube_data, built, gated,
                   delay_ms, call, html, api_key, transcript_info, translate_to>>

CallNext ==
    \/ New \/ WithDelay
    \/ CallListTranscripts \/ CallFetchTranscript \/ CallTranslateTranscript
    \/ Delay \/ GetPage \/ GetPageRetry \/ ExtractApiKey \/ PostApi
    \/ ExtractCatalog \/ SelectForFetch \/ SelectForTranslate
    \/ CheckPoToken \/ GetCaption

CallSpec == Idle /\ [][CallNext]_vars

(***************************************************************************)
(* fetch_transcript_data on its own: any track, with or without a target,  *)
(* listed by the track or not.                                             *)
(***************************************************************************)
German == TranslationLanguage("German", "de")

French == TranslationLanguage("French", "fr")

DataTracks ==
    {TranscriptInfo("en", "English", FALSE, TRUE, UrlPlain, <<German, French>>),
     TranscriptInfo("en", "English (auto-generated)", TRUE, TRUE, UrlPlain, <<French, German>>),
     TranscriptInfo("es", "es", TRUE, FALSE, UrlPlain, <<>>),
     TranscriptInfo("es", "Spanish", FALSE, FALSE, UrlPlain, <<>>),
     TranscriptInfo("en", "English", FALSE, TRUE, UrlProtected, <<German>>),
     TranscriptInfo("fr", "French", FALSE, FALSE,
                    <<"https://www.youtube.com/api/timedtext?v=4", "&exp=xpe&pot=1">>, <<>>)}

DataTargets == {Absent, Some("de"), Some("it")}

CallFetchTranscriptData ==
    /\ pc = "ready"
    /\ \E vid \in BuildVideoIds, info \in DataTracks, to \in DataTargets :
          /\ video_id' = vid
          /\ transcript_info' = info
          /\ translate_to' = to
    /\ call' = [entry |-> "fetch_transcript_data"]
    /\ pc' = "data_check"
    /\ UNCHANGED <<lookupVars, found, innertube_data, built, gated, delay_ms,
                   html, api_key, log, result>>

FetchDataNext ==
    \/ New \/ WithDelay \/ CallFetchTranscriptData
    \/ Delay \/ CheckPoToken \/ GetCaption

FetchDataSpec == Idle /\ [][FetchDataNext]_vars

(***************************************************************************)
(* The log, as the claims about the calls read it.                         *)
(***************************************************************************)
IsNetwork(e) == e.kind \in {"GET", "POST"}

IsDelay(e) == e.kind = "delay"

IsPageGet(e) == e.kind = "GET" /\ e.url = WatchUrl(video_id)

IsCaptionGet(e) == e.kind = "GET" /\ e.url # WatchUrl(video_id)

IsPost(e) == e.kind = "POST"

NetworkEvents == SelectSeq(log, IsNetwork)

PageGets == SelectSeq(log, IsPageGet)

\* a public operation has been called
Called == pc \notin {"new", "ready"}

\* the log ends with the step of this name
JustDid(name) == log # <<>> /\ log[Len(log)] = StepEvent(name)

\* translate_transcript has selected its source track
TranslateSelected ==
    /\ Called /\ call.entry = "translate_transcript"
    /\ found # None /\ found.ok

\* the target is not in the selected track's translation-language list
TargetAbsent ==
    \A i \in 1..Len(found.track.translation_languages) :
        found.track.translation_languages[i].language_code # call.target_language

\* translate_transcript has failed on the selected track's translatability
TranslateRejected ==
    /\ TranslateSelected
    /\ ~found.track.is_translatable \/ TargetAbsent

\* C12 (as stated): translate_transcript fails with NotTranslatable when the
\* selected track is not translatable, with TranslationLanguageNotAvailable
\* (target) when it is but does not list the target, and in either case the
\* operation has issued no network call.
C12_RejectedWithoutNetworkCall ==
    TranslateSelected =>
        /\ ~found.track.is_translatable =>
              result = [ok |-> FALSE, kind |-> "NotTranslatable", video_id |-> video_id]
        /\ (found.track.is_translatable /\ TargetAbsent) =>
              result = [ok |-> FALSE, kind |-> "TranslationLanguageNotAvailable",
                        language |-> call.target_language]
        /\ TranslateRejected => NetworkEvents = <<>>

\* C12 (amended): translate_transcript fails with NotTranslatable when the
\* selected track is not translatable, with TranslationLanguageNotAvailable
\* (target) when it is but does not list the target; in either case the
\* operation has issued the requests of the catalog fetch only (the watch page,
\* once or twice, then the internal API, once), no caption payload request, and
\* nothing after the selection.
C12_RejectedBeforeCaptionFetch ==
    TranslateSelected =>
        /\ ~found.track.is_translatable =>
              result = [ok |-> FALSE, kind |-> "NotTranslatable", video_id |-> video_id]
        /\ (found.track.is_translatable /\ TargetAbsent) =>
              result = [ok |-> FALSE, kind |-> "TranslationLanguageNotAvailable",
                        language |-> call.target_language]
        /\ TranslateRejected =>
              /\ JustDid("find_transcript")
              /\ \A i \in 1..Len(log) : ~IsCaptionGet(log[i])
              /\ Len(NetworkEvents) = Len(PageGets) + 1
              /\ Len(PageGets) \in {1, 2}
              /\ IsPost(NetworkEvents[Len(NetworkEvents)])

C12_Witness ==
    /\ TranslateSelected
    /\ found.track.is_translatable /\ TargetAbsent
    /\ result # None /\ result.kind = "TranslationLanguageNotAvailable"
    /\ Len(PageGets) = 2

\* C13: a call of list_transcripts, fetch_transcript or translate_transcript
\* builds its requests from a validated video id only: the identifier every
\* request carries is one extract_video_id returns unchanged, and an input the
\* resolver rejects fails with InvalidVideoId before any network call.
C13_RequestsCarryValidatedId ==
    Called =>
        /\ \A i \in 1..Len(log) :
              /\ IsPageGet(log[i]) =>
                    /\ ExtractVideoId(video_id).ok
                    /\ ExtractVideoId(video_id).id = video_id
              /\ IsPost(log[i]) =>
                    /\ ExtractVideoId(log[i].body.videoId).ok
                    /\ ExtractVideoId(log[i].body.videoId).id = log[i].body.videoId
        /\ ~ExtractVideoId(video_id).ok =>
              /\ NetworkEvents = <<>>
              /\ result # None => result = InvalidVideoId(video_id)

\* the page holds the bot-detection marker
BotMarked(page) == \E i \in 1..Len(page) : page[i] \in {Recaptcha, RecaptchaClass}

\* a well-formed key token starts at i and ends at e: the label, whitespace or
\* nothing, a quote at q, one key character or more, a quote at e
KeyTokenFrom(page, i, q, e) ==
    /\ page[i] = KeyLabel
    /\ i < q /\ q + 1 < e
    /\ \A k \in (i + 1)..(q - 1) : page[k] \in {" ", Newline}
    /\ page[q] = Quote /\ page[e] = Quote
    /\ \A k \in (q + 1)..(e - 1) : page[k] \in {"a", "7", "-", "_", "K"}

KeyTokens(page) ==
    {t \in (1..Len(page)) \X (1..Len(page)) \X (1..Len(page)) :
        KeyTokenFrom(page, t[1], t[2], t[3])}

\* the key of the first well-formed token of the page
KeyOf(page) ==
    LET t == CHOOSE t \in KeyTokens(page) : \A u \in KeyTokens(page) : t[1] <= u[1]
    IN  SubSeq(page, t[2] + 1, t[3] - 1)

\* C14: in the key extraction the bot check comes first: a page with the bot
\* marker fails with IpBlocked, even when it holds a well-formed key token; a
\* page with neither fails with YouTubeDataUnparsable; a page with a token and
\* no marker yields the key; and after either failure no POST has been issued.
C14_BotCheckBeforeKey ==
    JustDid("extract_innertube_api_key") =>
        /\ BotMarked(html) =>
              result = [ok |-> FALSE, kind |-> "IpBlocked", video_id |-> video_id]
        /\ (~BotMarked(html) /\ KeyTokens(html) = {}) =>
              result = [ok |-> FALSE, kind |-> "YouTubeDataUnparsable",
                        video_id |-> video_id]
        /\ (~BotMarked(html) /\ KeyTokens(html) # {}) =>
              /\ result = None /\ pc = "api_delay"
              /\ api_key = KeyOf(html)
        /\ result # None =>
              /\ pc = "done"
              /\ \A i \in 1..Len(log) : ~IsPost(log[i])

C14_Witness ==
    /\ JustDid("extract_innertube_api_key")
    /\ BotMarked(html) /\ KeyTokens(html) # {}
    /\ result # None /\ result.kind = "IpBlocked"

\* the request at i of the log got a response with this status
Answered(i) == IsNetwork(log[i]) /\ log[i].response.sent

\* C15: for every response of the pipeline (first page GET, retried page GET,
\* internal-API POST, caption GET): 429 ends the call with IpBlocked of the
\* video id, any other status outside 200..299 ends it with HttpError, and the
\* call goes past a request only when its status is in 200..299 and its body
\* was read.
C15_StatusMapping ==
    \A i \in 1..Len(log) :
        /\ (Answered(i) /\ log[i].response.status = 429) =>
              /\ result = [ok |-> FALSE, kind |-> "IpBlocked", video_id |-> video_id]
              /\ i = Len(log) /\ pc = "done"
        /\ (/\ Answered(i) /\ log[i].response.status # 429
            /\ log[i].response.status \notin 200..299) =>
              /\ result # None /\ result.kind = "HttpError"
              /\ i = Len(log) /\ pc = "done"
        /\ (IsNetwork(log[i]) /\ (i < Len(log) \/ result = None \/ result.ok)) =>
              /\ log[i].response.sent
              /\ log[i].response.status \in 200..299
              /\ log[i].response.body # Absent

C15_Witness ==
    /\ Len(NetworkEvents) = 4
    /\ IsCaptionGet(log[Len(log)])
    /\ log[Len(log)].response = [sent |-> TRUE, status |-> 429, body |-> <<<<>>>>]
    /\ result.kind = "IpBlocked"

\* fetch_transcript_data has made its test of the request URL
PoTokenChecked == Called /\ pc # "data_check"

\* the request URL holds the protected-stream marker
Protected ==
    \E i \in 1..Len(RequestUrl(transcript_info, translate_to)) :
        RequestUrl(transcript_info, translate_to)[i] \in {PoMarker, "&exp=xpe&pot=1"}

\* C16: fetch_transcript_data fails with PoTokenRequired of the video id whenever
\* its request URL (the track's URL, with the translation parameter when a
\* target is given) holds the protected-stream marker, before any wait and any
\* request.
C16_PoTokenBeforeDelay ==
    (PoTokenChecked /\ Protected) =>
        /\ result = [ok |-> FALSE, kind |-> "PoTokenRequired", video_id |-> video_id]
        /\ \A i \in 1..Len(log) : ~IsDelay(log[i]) /\ ~IsNetwork(log[i])

C16_Witness ==
    /\ PoTokenChecked /\ Protected
    /\ translate_to = <<"de">>
    /\ result # None /\ result.kind = "PoTokenRequired"

\* the first entry of the track's translation-language list with the target's
\* code, if there is one
Listed(info, target) ==
    {i \in 1..Len(info.translation_languages) :
        /\ info.translation_languages[i].language_code = target
        /\ \A j \in 1..(i - 1) : info.translation_languages[j].language_code # target}

\* C17: a successful fetch_transcript_data reports the target's code when
\* translating and the track's own otherwise; generated when the track is or a
\* translation was asked for; the track's translatable flag and the call's video
\* id; and as language name the target's name in the track's translation list
\* when translating and listed, the track's own name otherwise.
C17_ResponseFields ==
    (PoTokenChecked /\ result # None /\ result.ok) =>
        LET r == result.response
            info == transcript_info
        IN  /\ r.video_id = video_id
            /\ r.is_translatable = info.is_translatable
            /\ translate_to = <<>> =>
                  /\ r.language_code = info.language_code
                  /\ r.is_generated = info.is_generated
                  /\ r.language = info.language
            /\ translate_to # <<>> =>
                  /\ r.language_code = translate_to[1]
                  /\ r.is_generated
                  /\ \A i \in Listed(info, translate_to[1]) :
                        r.language = info.translation_languages[i].language
                  /\ Listed(info, translate_to[1]) = {} => r.language = info.language

C17_Witness ==
    /\ PoTokenChecked /\ result # None /\ result.ok
    /\ translate_to = <<"it">>
    /\ ~transcript_info.is_generated
    /\ result.response.language = transcript_info.language
    /\ result.response.transcript # <<>>

\* the stage of the catalog fetch a log entry belongs to: FetchPage 1,
\* ExtractApiKey 2, CallInternalApi 3, PlayabilityGate and ExtractCatalog 4
Stage(e) ==
    CASE IsPageGet(e) -> 1
      [] e = StepEvent("extract_innertube_api_key") -> 2
      [] IsPost(e) -> 3
      [] e = StepEvent("extract_captions_json") -> 4
      [] OTHER -> 0

IsStage(e) == Stage(e) # 0

Stages == SelectSeq(log, IsStage)

\* the position of the call in the pass
Rank(p) ==
    CASE p = "html_delay" -> 1 [] p = "html_get" -> 2
      [] p = "retry_delay" -> 3 [] p = "retry_get" -> 4
      [] p = "list_delay" -> 5 [] p = "extract_key" -> 6
      [] p = "api_delay" -> 7 [] p = "api_post" -> 8
      [] p = "extract_captions" -> 9 [] p = "done" -> 10
      [] OTHER -> 0

ListCall == Called /\ call.entry = "list_transcripts"

\* the stages of the log are in the order of the pass, the page stage taken
\* once or twice and every other stage at most once
ForwardPass ==
    /\ \A i \in 1..(Len(Stages) - 1) :
          \/ Stage(Stages[i]) < Stage(Stages[i + 1])
          \/ i = 1 /\ Stage(Stages[1]) = 1 /\ Stage(Stages[2]) = 1
    /\ Len(PageGets) <= 2
    /\ Len(SelectSeq(log, IsPost)) <= 1
    /\ built # None => (gated # None /\ (~gated.ok => built = gated))
    /\ result # None => pc = "done"

\* C18: a list_transcripts call is one forward pass FetchPage (once, or twice
\* for the consent retry), ExtractApiKey, CallInternalApi, PlayabilityGate,
\* ExtractCatalog, Done: the steps come in this order, none is repeated, the
\* page is requested at most twice and the internal API at most once, and once
\* the call has returned (an error or the catalog) it takes no further step.
C18_SingleForwardPass ==
    /\ [](ListCall => ForwardPass)
    /\ [][ListCall =>
            /\ result = None
            /\ Rank(pc) < Rank(pc')
            /\ (result' # None /\ ~result'.ok) => pc' = "done"]_vars

C18_Witness ==
    /\ ListCall /\ Len(PageGets) = 2
    /\ result # None /\ ~result.ok
    /\ IsPost(log[Len(log)])

\* the body read from the n-th request of the watch page, Absent if none was
PageBody(n) ==
    IF /\ PageGets[n].response.sent
       /\ PageGets[n].response.status \in 200..299
    THEN PageGets[n].response.body
    ELSE <<>>

HasConsentForm(body) ==
    body # <<>> /\ \E i \in 1..Len(body[1]) : body[1][i] = ConsentMarker

\* the hidden form value can be taken from the page: its input opens, and the
\* quote that closes the value follows on the same line
HasHiddenValue(body) ==
    \E i \in 1..Len(body[1]) : \E j \in (i + 1)..Len(body[1]) :
        /\ body[1][i] = HiddenOpen /\ body[1][j] = Quote
        /\ \A k \in (i + 1)..(j - 1) : body[1][k] # Newline

\* C19: the watch page is requested a second time, once, exactly when the first
\* page read holds the consent form and its hidden value can be taken; with the
\* form but no hidden value the call fails with FailedToCreateConsentCookie and
\* no retry; a retried page with the form fails with
\* FailedToCreateConsentCookie; a retried page without it is the page the key
\* extraction gets.
C19_ConsentHandshake ==
    (Called /\ PageGets # <<>>) =>
        /\ Len(PageGets) <= 2
        /\ (Len(PageGets) = 2 \/ pc \in {"retry_delay", "retry_get"})
              <=> (HasConsentForm(PageBody(1)) /\ HasHiddenValue(PageBody(1)))
        /\ (HasConsentForm(PageBody(1)) /\ ~HasHiddenValue(PageBody(1))) =>
              /\ result = [ok |-> FALSE, kind |-> "FailedToCreateConsentCookie",
                           video_id |-> video_id]
              /\ Len(PageGets) = 1
        /\ (Len(PageGets) = 2 /\ HasConsentForm(PageBody(2))) =>
              /\ result = [ok |-> FALSE, kind |-> "FailedToCreateConsentCookie",
                           video_id |-> video_id]
              /\ IsPageGet(log[Len(log)])
        /\ (Len(PageGets) = 2 /\ PageBody(2) # <<>> /\ ~HasConsentForm(PageBody(2))) =>
              /\ html = PageBody(2)[1]
              /\ pc # "done" \/ ~IsPageGet(log[Len(log)])
        /\ (PageBody(1) # <<>> /\ ~HasConsentForm(PageBody(1))) =>
              html = PageBody(1)[1]

C19_Witness ==
    /\ Called /\ Len(PageGets) = 2
    /\ PageBody(2) # <<>> /\ ~HasConsentForm(PageBody(2))
    /\ JustDid("extract_innertube_api_key") /\ pc = "api_delay"

\* a wait of the configured duration lies between the request at i and the
\* request before it (or the start of the call)
DelayedBefore(i) ==
    \E j \in 1..(i - 1) :
        /\ log[j] = [kind |-> "delay", ms |-> delay_ms]
        /\ \A k \in j..(i - 1) : ~IsNetwork(log[k])

\* C20: every request of a call comes after a wait of the configured duration
\* that follows the previous request of the call; every wait has the duration
\* given at construction, 500 ms with new(), and the duration never changes.
C20_DelayBeforeEveryRequest ==
    pc # "new" =>
        /\ log[1] = [kind |-> "new"] => delay_ms = 500
        /\ log[1] # [kind |-> "new"] => delay_ms = log[1].ms
        /\ \A i \in 1..Len(log) :
              /\ IsNetwork(log[i]) => DelayedBefore(i)
              /\ IsDelay(log[i]) => log[i].ms = delay_ms

C20_Witness ==
    /\ Len(NetworkEvents) = 4
    /\ IsCaptionGet(log[Len(log)])
    /\ log[1] = [kind |-> "new"]
    /\ result # None /\ result.ok

(***************************************************************************)
(* The catalog build behind the gate: one call of extract_captions_json on *)
(* every playability block of the gate's specification, with the captions  *)
(* section absent, empty, or listing one or two tracks.                    *)
(***************************************************************************)
GatedDocuments ==
    {[playabilityStatus |-> b, captions |-> cs] :
        <<b, cs>> \in GateBlocks \X FewCaptionsSections}

GatedBuildInit ==
    /\ NoCall
    /\ video_id \in GateVideoIds
    /\ innertube_data \in GatedDocuments
    /\ built = None
    /\ url_or_id = None /\ resolved = None
    /\ list = None /\ language_codes = None /\ op = None /\ found = None

GatedBuildNext == Build

GatedBuildSpec == GatedBuildInit /\ [][GatedBuildNext]_vars

\* the gate rejects the document: it has a playability block whose status is not OK
Rejected == innertube_data.playabilityStatus # Absent /\ ~StatusIs("OK")

\* the error of the gate for the document, by the mapping of the gate
GateErrorKind ==
    IF BotChallenge THEN "RequestBlocked"
    ELSE IF AgeGate THEN "AgeRestricted"
    ELSE IF Unavailable /\ LooksLikeUrl THEN "InvalidVideoId"
    ELSE IF Unavailable THEN "VideoUnavailable"
    ELSE "VideoUnplayable"

\* C21: the gate runs before the catalog extraction and short-circuits it: when
\* the response has a playability block the gate rejects, the build fails with the
\* gate's error (RequestBlocked, AgeRestricted, InvalidVideoId, VideoUnavailable
\* or VideoUnplayable) whatever the captions section holds, never with
\* TranscriptsDisabled and never with a catalog.
C21_GateShortCircuitsBuild ==
    (built # None /\ Rejected) =>
        /\ ~built.ok
        /\ built.kind = GateErrorKind
        /\ built.video_id = video_id
        /\ built.kind = "VideoUnplayable" => built.reason = RawReason
        /\ built.kind # "TranscriptsDisabled"

C21_Witness ==
    /\ built # None /\ Rejected
    /\ built.kind = "AgeRestricted"
    /\ innertube_data.captions # Absent
    /\ Get(innertube_data.captions).playerCaptionsTracklistRenderer # Absent
    /\ Get(Get(innertube_data.captions).playerCaptionsTracklistRenderer).captionTracks
          # Absent

\* the tracks of a returned catalog, each with the upstream entry it was read
\* from: the last surviving entry of its code and kind
BuiltTracks ==
    {<<built.list.manually_created[c], UpstreamTracks[Last(UpstreamOf(c, FALSE))]>> :
        c \in DOMAIN built.list.manually_created}
    \cup
    {<<built.list.generated[c], UpstreamTracks[Last(UpstreamOf(c, TRUE))]>> :
        c \in DOMAIN built.list.generated}

\* C22: in every returned catalog a track's translation-language list is empty
\* when the track is not translatable and is the catalog-wide list, entry for
\* entry, when it is; a track whose upstream entry has no isTranslatable is not
\* translatable.
C22_TranslationListFollowsFlag ==
    (built # None /\ built.ok) =>
        \A te \in BuiltTracks :
            /\ ~te[1].is_translatable => te[1].translation_languages = <<>>
            /\ te[1].is_translatable =>
                  te[1].translation_languages = built.list.translation_languages
            /\ te[2].isTranslatable = Absent => ~te[1].is_translatable
            /\ te[1].is_translatable <=> te[2].isTranslatable = Some(TRUE)

C22_Witness ==
    /\ built # None /\ built.ok
    /\ Len(built.list.translation_languages) = 2
    /\ \E te \in BuiltTracks :
          te[1].is_translatable /\ Len(te[1].translation_languages) = 2
    /\ \E te \in BuiltTracks :
          te[2].isTranslatable = Absent /\ te[1].translation_languages = <<>>

(***************************************************************************)
(* A lookup on a built catalog: extract_captions_json on a document, the   *)
(* caller taking the catalog out of the result, and one of the three       *)
(* lookups on it.                                                          *)
(***************************************************************************)
LookupEntries ==
    {CaptionEntry(Some(c), Some(UrlPlain), n, k, Absent) :
        <<c, n, k>> \in {"en", "es"}
                        \X {Absent, Some("Display name")}
                        \X {Absent, Some("asr")}}
    \cup IncompleteEntries

LookupDocuments ==
    {[playabilityStatus |-> PlayabilityOk,
      captions |-> Some([playerCaptionsTracklistRenderer |->
                   Some([translationLanguages |-> Absent,
                         captionTracks |-> Some(ct)])])] :
        ct \in UNION {[1..n -> LookupEntries] : n \in 0..MaxTracks}}

LookupRequests == {<<>>, <<"en">>, <<"fr">>, <<"fr", "es">>, <<"es", "en">>}

BuiltLookupInit ==
    /\ NoCall
    /\ video_id = IdA
    /\ innertube_data \in LookupDocuments
    /\ language_codes \in LookupRequests
    /\ op \in Lookups
    /\ built = None /\ list = None /\ found = None
    /\ url_or_id = None /\ resolved = None

\* let transcript_list = ...?: the catalog of a successful build
BindCatalog ==
    /\ built # None /\ built.ok /\ list = None
    /\ list' = built.list
    /\ UNCHANGED <<url_or_id, resolved, language_codes, op, found,
                   video_id, innertube_data, built, callVars>>

\* transcript_list.find_transcript(&languages) on the catalog taken
FindTranscriptOnBuilt == list # None /\ CallFindTranscript

FindManuallyCreatedOnBuilt == list # None /\ CallFindManuallyCreated

FindGeneratedOnBuilt == list # None /\ CallFindGenerated

BuiltLookupNext ==
    \/ Build \/ BindCatalog
    \/ FindTranscriptOnBuilt \/ FindManuallyCreatedOnBuilt \/ FindGeneratedOnBuilt

BuiltLookupSpec == BuiltLookupInit /\ [][BuiltLookupNext]_vars

\* C25: in every built catalog each entry of the generated mapping is a
\* generated track whose code is its key and each entry of the authored mapping
\* an authored track whose code is its key; so every successful lookup on the
\* catalog returns a track whose code is one of the requested codes.
C25_KeysAreCodes ==
    /\ (built # None /\ built.ok) =>
          /\ \A c \in DOMAIN built.list.generated :
                /\ built.list.generated[c].is_generated
                /\ built.list.generated[c].language_code = c
          /\ \A c \in DOMAIN built.list.manually_created :
                /\ ~built.list.manually_created[c].is_generated
                /\ built.list.manually_created[c].language_code = c
    /\ (found # None /\ found.ok) =>
          \E i \in 1..Len(language_codes) :
              language_codes[i] = found.track.language_code

C25_Witness ==
    /\ found # None /\ found.ok
    /\ op = "find_generated"
    /\ language_codes = <<"fr", "es">>
    /\ found.track.language_code = "es"
    /\ DOMAIN list.manually_created # {}

FetchCall == Called /\ call.entry = "fetch_transcript"

CaptionGets == SelectSeq(log, IsCaptionGet)

\* the catalog pipeline has returned a catalog and find_transcript a track of it
TrackSelected ==
    /\ built # None /\ built.ok
    /\ found # None /\ found.ok

\* C24: in a fetch_transcript call the caption payload is requested only after
\* the catalog pipeline has succeeded and find_transcript has selected a track,
\* never when the pipeline fails or no requested language matches; the call
\* issues at most four requests: the page, the page again after consent, the
\* internal API, the caption payload, each at most once.
C24_CaptionFetchAfterSelection ==
    FetchCall =>
        /\ CaptionGets # <<>> =>
              /\ TrackSelected
              /\ CaptionGets[1].url = RequestUrl(found.track, <<>>)
              /\ \E i \in 1..Len(log) :
                    /\ log[i] = StepEvent("find_transcript")
                    /\ \A j \in 1..i : ~IsCaptionGet(log[j])
                    /\ \A j \in i..Len(log) : ~IsPageGet(log[j]) /\ ~IsPost(log[j])
        /\ ~TrackSelected => CaptionGets = <<>>
        /\ (result # None /\ ~result.ok /\ result.kind = "NoTranscriptFound") =>
              CaptionGets = <<>>
        /\ Len(PageGets) <= 2
        /\ Len(SelectSeq(log, IsPost)) <= 1
        /\ Len(CaptionGets) <= 1
        /\ Len(NetworkEvents) = Len(PageGets) + Len(SelectSeq(log, IsPost)) + Len(CaptionGets)

C24_Witness ==
    /\ FetchCall
    /\ result # None /\ ~result.ok /\ result.kind = "NoTranscriptFound"
    /\ Len(NetworkEvents) = 3 /\ Len(PageGets) = 2

(***************************************************************************)
(* Two list_transcripts calls, interleaved, on one client or on two.  The  *)
(* clients are built with new().  Every variable of a call is a local of   *)
(* its future and so there is one per call; delay_ms and the cookie store  *)
(* are fields of the client and so there is one per client.  A future that *)
(* is dropped while it awaits takes its locals with it.                    *)
(***************************************************************************)
Calls == {1, 2}

Clients == {1, 2}

SentGet(url, response, cookies, set_cookie) ==
    [kind |-> "GET", url |-> url, response |-> response,
     cookies |-> cookies, set_cookie |-> set_cookie]

SentPost(url, body, response, cookies, set_cookie) ==
    [kind |-> "POST", url |-> url, body |-> body, response |-> response,
     cookies |-> cookies, set_cookie |-> set_cookie]

SomePageResponses ==
    {Response(200, Some(<<"<html>">> \o KeyTokenA)),
     Response(200, Some(<<"<html>">> \o KeyTokenB)),
     Response(200, Some(<<ConsentMarker, HiddenOpen, "c", "b", Quote>> \o KeyTokenA)),
     Response(429, Absent)}

SomeApiResponses ==
    {Response(200, Some(PipelineDocument(PlayabilityOk, <<EnAuthored>>))),
     Response(200, Some(PipelineDocument(PlayabilityOk, <<EsGenerated>>))),
     Response(503, Absent)}

\* the Set-Cookie headers of a page response (the internal API sets none)
SetCookies == {{}, {"SOCS"}}

AwaitPositions ==
    {"html_delay", "html_get", "retry_delay", "retry_get", "list_delay",
     "api_delay", "api_post"}

idleVars ==
    <<url_or_id, resolved, list, language_codes, op, found, transcript_info,
      translate_to, delay_ms>>

ConcurrentInit ==
    /\ url_or_id = None /\ resolved = None /\ list = None
    /\ language_codes = None /\ op = None /\ found = None
    /\ transcript_info = None /\ translate_to = None
    /\ delay_ms = [k \in Clients |-> DefaultDelayMs]
    /\ cookie_store = [k \in Clients |-> {}]
    /\ call = [c \in Calls |-> None]
    /\ pc = [c \in Calls |-> "ready"]
    /\ video_id = [c \in Calls |-> None]
    /\ html = [c \in Calls |-> Absent]
    /\ api_key = [c \in Calls |-> Absent]
    /\ innertube_data = [c \in Calls |-> Absent]
    /\ built = [c \in Calls |-> None]
    /\ gated = [c \in Calls |-> None]
    /\ result = [c \in Calls |-> None]
    /\ log = [c \in Calls |-> <<>>]

\* call c goes to position p without returning
Goes(c, p) == pc' = [pc EXCEPT ![c] = p] /\ result' = result

\* call c returns r
Returns(c, r) == pc' = [pc EXCEPT ![c] = "done"] /\ result' = [result EXCEPT ![c] = r]

\* the mutant of KeyForPost in which the client keeps the first key it has taken
KeyForPostCached(keys, c) ==
    IF keys[1] # Absent THEN Get(keys[1]) ELSE Get(keys[c])

\* fetch_innertube_data(video_id, &api_key): the api_key of the call
KeyForPost(keys, c) == Get(keys[c])

\* the client and the video of a call: the calls are numbered so that call 1
\* is on client 1 and for the first video; call 2 is on either client, for the
\* same video or another
ClientsOf(c) == IF c = 1 THEN {1} ELSE Clients

VideoIdsOf(c) == IF c = 1 THEN {IdA} ELSE VideoIds

StartListTranscripts(c) ==
    /\ pc[c] = "ready"
    /\ \E k \in ClientsOf(c), vid \in VideoIdsOf(c) :
          /\ call' = [call EXCEPT ![c] = [entry |-> "list_transcripts", client |-> k]]
          /\ video_id' = [video_id EXCEPT ![c] = vid]
    /\ Goes(c, "html_delay")
    /\ UNCHANGED <<idleVars, cookie_store, html, api_key, innertube_data, built,
                   gated, log>>

Wait(c) ==
    /\ pc[c] \in AwaitPositions \cap DelayPositions
    /\ log' = [log EXCEPT ![c] = Append(@, DelayEvent(delay_ms[call[c].client]))]
    /\ Goes(c, AfterDelay(pc[c]))
    /\ UNCHANGED <<idleVars, cookie_store, call, video_id, html, api_key,
                   innertube_data, built, gated>>

FetchPage(c) ==
    /\ pc[c] = "html_get"
    /\ \E response \in SomePageResponses, set_cookie \in SetCookies :
          LET got == ReadBody(response, video_id[c],
                              HttpError(<<"Failed to fetch HTML: ", "error">>),
                              HttpError(<<"Failed to read HTML: ", "error">>))
              k == call[c].client
          IN  /\ log' = [log EXCEPT ![c] =
                            Append(@, SentGet(WatchUrl(video_id[c]), response,
                                              cookie_store[k], set_cookie))]
              /\ cookie_store' = [cookie_store EXCEPT ![k] = @ \cup set_cookie]
              /\ IF ~got.ok THEN Returns(c, got) /\ html' = html
                 ELSE /\ html' = [html EXCEPT ![c] = Some(got.body)]
                      /\ IF Contains(got.body, ConsentMarker)
                         THEN IF CreateConsentCookie(got.body, video_id[c]).ok
                              THEN Goes(c, AfterConsent)
                              ELSE Returns(c, CreateConsentCookie(got.body, video_id[c]))
                         ELSE Goes(c, "list_delay")
    /\ UNCHANGED <<idleVars, call, video_id, api_key, innertube_data, built, gated>>

FetchPageAgain(c) ==
    /\ pc[c] = "retry_get"
    /\ \E response \in SomePageResponses, set_cookie \in SetCookies :
          LET got == ReadBody(response, video_id[c],
                              HttpError(<<"Failed to fetch HTML after consent: ", "error">>),
                              HttpError(<<"Failed to read HTML: ", "error">>))
              k == call[c].client
          IN  /\ log' = [log EXCEPT ![c] =
                            Append(@, SentGet(WatchUrl(video_id[c]), response,
                                              cookie_store[k], set_cookie))]
              /\ cookie_store' = [cookie_store EXCEPT ![k] = @ \cup set_cookie]
              /\ IF ~got.ok THEN Returns(c, got) /\ html' = html
                 ELSE /\ html' = [html EXCEPT ![c] = Some(got.body)]
                      /\ IF Contains(got.body, ConsentMarker)
                         THEN Returns(c, Failed("FailedToCreateConsentCookie",
                                                video_id[c]))
                         ELSE Goes(c, "list_delay")
    /\ UNCHANGED <<idleVars, call, video_id, api_key, innertube_data, built, gated>>

TakeApiKey(c) ==
    /\ pc[c] = "extract_key"
    /\ log' = [log EXCEPT ![c] = Append(@, StepEvent("extract_innertube_api_key"))]
    /\ LET key == ExtractInnertubeApiKey(Get(html[c]), video_id[c])
       IN  IF key.ok
           THEN api_key' = [api_key EXCEPT ![c] = Some(key.key)] /\ Goes(c, "api_delay")
           ELSE Returns(c, key) /\ api_key' = api_key
    /\ UNCHANGED <<idleVars, cookie_store, call, video_id, html, innertube_data,
                   built, gated>>

FetchInnertubeData(c) ==
    /\ pc[c] = "api_post"
    /\ \E response \in SomeApiResponses, set_cookie \in {{}} :
          LET got == ReadBody(response, video_id[c],
                              HttpError(<<"Failed to fetch InnerTube data: ", "error">>),
                              JsonParseError(<<"Failed to parse InnerTube response: ", "error">>))
              k == call[c].client
          IN  /\ log' = [log EXCEPT ![c] =
                            Append(@, SentPost(InnertubeApiUrl(KeyForPost(api_key, c)),
                                               InnertubeContext(video_id[c]), response,
                                               cookie_store[k], set_cookie))]
              /\ cookie_store' = [cookie_store EXCEPT ![k] = @ \cup set_cookie]
              /\ IF ~got.ok THEN Returns(c, got) /\ innertube_data' = innertube_data
                 ELSE /\ innertube_data' = [innertube_data EXCEPT ![c] = Some(got.body)]
                      /\ Goes(c, "extract_captions")
    /\ UNCHANGED <<idleVars, call, video_id, html, api_key, built, gated>>

BuildCatalog(c) ==
    /\ pc[c] = "extract_captions"
    /\ log' = [log EXCEPT ![c] = Append(@, StepEvent("extract_captions_json"))]
    /\ gated' = [gated EXCEPT ![c] =
                    AssertPlayability(video_id[c], Get(innertube_data[c]))]
    /\ built' = [built EXCEPT ![c] =
                    ExtractCaptionsJson(video_id[c], Get(innertube_data[c]))]
    /\ Returns(c, built'[c])
    /\ UNCHANGED <<idleVars, cookie_store, call, video_id, html, api_key,
                   innertube_data>>

\* the caller drops the future of call c while it awaits
Drop(c) ==
    /\ pc[c] \in AwaitPositions
    /\ Goes(c, "dropped")
    /\ html' = [html EXCEPT ![c] = Absent]
    /\ api_key' = [api_key EXCEPT ![c] = Absent]
    /\ innertube_data' = [innertube_data EXCEPT ![c] = Absent]
    /\ UNCHANGED <<idleVars, cookie_store, call, video_id, built, gated, log>>

ConcurrentNext ==
    \E c \in Calls :
        \/ StartListTranscripts(c) \/ Wait(c) \/ FetchPage(c) \/ FetchPageAgain(c)
        \/ TakeApiKey(c) \/ FetchInnertubeData(c) \/ BuildCatalog(c) \/ Drop(c)

ConcurrentSpec == ConcurrentInit /\ [][ConcurrentNext]_vars

\* the page body call c had read last before entry i of its log
PageBefore(c, i) ==
    LET gets == {j \in 1..(i - 1) : log[c][j].kind = "GET"}
    IN  Get(log[c][CHOOSE j \in gets : \A m \in gets : m <= j].response.body)

\* the entries of the logs of the calls made on client k
EntriesOn(k) ==
    UNION {{log[c][i] : i \in 1..Len(log[c])} :
              c \in {d \in Calls : pc[d] # "ready" /\ call[d].client = k}}

\* C23: for any interleaving of two calls, on one client or on two, nothing of
\* the pipeline is shared but the cookie store of a client: the key of a call's
\* POST is the key of the page that call read, its requests carry its own video
\* id, the catalog it returns is built from its own API response and carries
\* its video id, the cookies it sends are cookies its own client was given, and
\* a dropped call keeps nothing.
C23_NoSharedPipelineState ==
    \A c \in Calls :
        pc[c] # "ready" =>
            /\ \A i \in 1..Len(log[c]) :
                  /\ log[c][i].kind = "GET" => log[c][i].url = WatchUrl(video_id[c])
                  /\ log[c][i].kind = "POST" =>
                        /\ log[c][i].url = InnertubeApiUrl(KeyOf(PageBefore(c, i)))
                        /\ log[c][i].body.videoId = video_id[c]
                  /\ log[c][i].kind \in {"GET", "POST"} =>
                        log[c][i].cookies \subseteq cookie_store[call[c].client]
                  /\ log[c][i].kind = "delay" =>
                        log[c][i].ms = delay_ms[call[c].client]
            /\ (result[c] # None /\ result[c].ok) =>
                  /\ log[c][Len(log[c]) - 1].kind = "POST"
                  /\ result[c] = ExtractCaptionsJson(
                                     video_id[c],
                                     Get(log[c][Len(log[c]) - 1].response.body))
                  /\ result[c].list.video_id = video_id[c]
            /\ cookie_store[call[c].client]
                  = UNION {e.set_cookie :
                              e \in {f \in EntriesOn(call[c].client) :
                                        f.kind \in {"GET", "POST"}}}
            /\ pc[c] = "dropped" =>
                  /\ html[c] = Absent /\ api_key[c] = Absent
                  /\ innertube_data[c] = Absent /\ result[c] = None

C23_Witness ==
    /\ pc[1] = "dropped" /\ pc[2] = "done"
    /\ call[2].client = 1 /\ video_id[2] # video_id[1]
    /\ \E i \in 1..Len(log[1]) : log[1][i] = StepEvent("extract_innertube_api_key")
    /\ PageBefore(1, Len(log[1])) = <<"<html>">> \o KeyTokenA
    /\ result[2] # None /\ result[2].ok
    /\ log[2][Len(log[2]) - 1].url = InnertubeApiUrl(<<"a", "_", "-">>)
    /\ log[2][1].kind = "delay" /\ log[2][2].cookies = {"SOCS"}

====
